---- MODULE Spec2Model ----
(***************************************************************************)
(* A model of parse_wiktionary_de: the heading-level dispatcher (parse,    *)
(* parse_language, parse_pos_section), the generic section extractor and   *)
(* the element parsers it calls, run over small node trees as the external *)
(* tokenizer (parse_wiki_text) would deliver them.                         *)
(***************************************************************************)
EXTENDS Integers, Sequences, FiniteSets, TLC

VARIABLES
    title,              \* parse's argument `title`
    nodes,              \* parse's argument `nodes` (page-level nodes, with offsets)
    debug_assertions,   \* whether the build keeps debug_assert! (cfg(debug_assertions))
    context,            \* util.rs Context: language, warnings, wiki_text
    language_entries,   \* parse's local `language_entries`
    node_index,         \* parse's local `node_index`
    language_frame,     \* the running parse_language call, or NoFrame
    pos_frame,          \* the running parse_pos_section call, or NoFrame
    pc,                 \* where control is: "parse", "language", "pos", "done", "panic"
    history             \* one record per dispatcher-loop step, in order

vars == <<title, nodes, debug_assertions, context, language_entries, node_index,
          language_frame, pos_frame, pc, history>>

----------------------------------------------------------------------------
(* Bounds of the explored inputs.                                          *)

\* Longest part-of-speech body (in page-level nodes) of the body pages.
MaxBody == 3

\* Longest page of the top-level pages.
MaxTop == 3

\* Longest run of mixed nodes inside a list item or a heading.
MaxInline == 2

\* Most parameters given to a marker.
MaxParameters == 2

\* The debug_assert! limit of add_warning.
WarningLimit == 10000

----------------------------------------------------------------------------
(* Nodes of parse_wiki_text, before offsets are assigned.                  *)

NoNodes == << >>

RawNode(kind) ==
    [kind |-> kind, level |-> 0, name |-> NoNodes, parameters |-> << >>,
     nodes |-> NoNodes, items |-> << >>, value |-> "", start |-> 0, end |-> 0]

Text(value) == [RawNode("Text") EXCEPT !.value = value]
Italic == RawNode("Italic")
Bold == RawNode("Bold")
Comment == [RawNode("Comment") EXCEPT !.value = "c"]
ParagraphBreak == RawNode("ParagraphBreak")
\* Node::CharacterEntity { character, .. }: `value` holds the character.
CharacterEntity(character) == [RawNode("CharacterEntity") EXCEPT !.value = character]
\* Node::StartTag { name, .. } and Node::EndTag { name, .. }
StartTag(name) == [RawNode("StartTag") EXCEPT !.value = name]
EndTag(name) == [RawNode("EndTag") EXCEPT !.value = name]
\* Node::Tag { name, .. }: `value` holds the tag name.
Tag(name) == [RawNode("Tag") EXCEPT !.value = name]
\* Node::Link { target, text }: `value` holds the target, `nodes` the text.
Link(target, text) == [RawNode("Link") EXCEPT !.value = target, !.nodes = text]
Heading(level, children) ==
    [RawNode("Heading") EXCEPT !.level = level, !.nodes = children]
\* Node::Template { name, parameters }: the name is a node sequence.
TemplateN(name, parameters) ==
    [RawNode("Template") EXCEPT !.name = name, !.parameters = parameters]
Template(name, parameters) == TemplateN(<<Text(name)>>, parameters)
DefinitionList(items) == [RawNode("DefinitionList") EXCEPT !.items = items]
UnorderedList(items) == [RawNode("UnorderedList") EXCEPT !.items = items]

\* Parameter { name: None, value }
Unnamed(value) ==
    [named |-> FALSE, name |-> NoNodes, value |-> value, start |-> 0, end |-> 0]
\* Parameter { name: Some(name), value }
Named(name, value) ==
    [named |-> TRUE, name |-> name, value |-> value, start |-> 0, end |-> 0]

\* DefinitionListItem { type_: Details, nodes } and { type_: Term, nodes };
\* ListItem { nodes } of an unordered list is held the same way.
Details(children) == [type_ |-> "Details", nodes |-> children, start |-> 0, end |-> 0]
Term(children) == [type_ |-> "Term", nodes |-> children, start |-> 0, end |-> 0]
ListItem(children) == [type_ |-> "Item", nodes |-> children, start |-> 0, end |-> 0]

----------------------------------------------------------------------------
(* The wiki text a node tree stands for, and the byte offsets of its       *)
(* nodes in it (Positioned::start / end).                                  *)

RECURSIVE Repeat(_, _)
Repeat(s, n) == IF n = 0 THEN "" ELSE s \o Repeat(s, n - 1)

RECURSIVE RenderNode(_), RenderSeq(_), RenderParameters(_), RenderItems(_, _)

RenderParameter(p) ==
    (IF p.named THEN RenderSeq(p.name) \o "=" ELSE "") \o RenderSeq(p.value)

ItemMark(item, bullet) == IF item.type_ = "Term" THEN ";" ELSE bullet

RenderNode(n) ==
    CASE n.kind = "Text" -> n.value
      [] n.kind = "Italic" -> "''"
      [] n.kind = "Bold" -> "'''"
      [] n.kind = "Comment" -> "<!--" \o n.value \o "-->"
      [] n.kind = "ParagraphBreak" -> "~~"
      [] n.kind = "CharacterEntity" -> "&" \o n.value \o ";"
      [] n.kind = "StartTag" -> "<" \o n.value \o ">"
      [] n.kind = "EndTag" -> "</" \o n.value \o ">"
      [] n.kind = "Tag" -> "<" \o n.value \o "/>"
      [] n.kind = "Link" -> "[[" \o n.value \o "|" \o RenderSeq(n.nodes) \o "]]"
      [] n.kind = "Heading" ->
            Repeat("=", n.level) \o RenderSeq(n.nodes) \o Repeat("=", n.level)
      [] n.kind = "Template" ->
            "{{" \o RenderSeq(n.name) \o RenderParameters(n.parameters) \o "}}"
      [] n.kind = "DefinitionList" -> RenderItems(n.items, ":")
      [] n.kind = "UnorderedList" -> RenderItems(n.items, "*")

RenderSeq(s) == IF s = << >> THEN "" ELSE RenderNode(Head(s)) \o RenderSeq(Tail(s))

RenderParameters(ps) ==
    IF ps = << >> THEN ""
    ELSE "|" \o RenderParameter(Head(ps)) \o RenderParameters(Tail(ps))

\* Every list item ends its line.
RenderItems(items, bullet) ==
    IF items = << >> THEN ""
    ELSE ItemMark(Head(items), bullet) \o RenderSeq(Head(items).nodes) \o "~"
         \o RenderItems(Tail(items), bullet)


RECURSIVE LayNode(_, _), LaySeq(_, _), LayParameters(_, _), LayItems(_, _)

\* The length of a parameter's "name=" prefix.
NameLen(p) == IF p.named THEN Len(RenderSeq(p.name)) + 1 ELSE 0

LayParameter(p, off) ==
    [p EXCEPT !.name = LaySeq(p.name, off),
              !.value = LaySeq(p.value, off + NameLen(p)),
              !.start = off,
              !.end = off + Len(RenderParameter(p))]

\* The offsets of what the node holds, `placed` being the node with its own.
LayInside(n, off, placed) ==
    CASE n.kind = "Heading" ->
            [placed EXCEPT !.nodes = LaySeq(n.nodes, off + n.level)]
      [] n.kind = "Link" ->
            [placed EXCEPT !.nodes = LaySeq(n.nodes, off + 3 + Len(n.value))]
      [] n.kind = "Template" ->
            [placed EXCEPT
                !.name = LaySeq(n.name, off + 2),
                !.parameters =
                    LayParameters(n.parameters, off + 2 + Len(RenderSeq(n.name)))]
      [] n.kind \in {"DefinitionList", "UnorderedList"} ->
            [placed EXCEPT !.items = LayItems(n.items, off)]
      [] OTHER -> placed

LayNode(n, off) ==
    LayInside(n, off, [n EXCEPT !.start = off, !.end = off + Len(RenderNode(n))])

\* `h` laid out, then the nodes after it.
LaySeqAfter(h, rest) == <<h>> \o LaySeq(rest, h.end)

LaySeq(s, off) ==
    IF s = << >> THEN << >> ELSE LaySeqAfter(LayNode(Head(s), off), Tail(s))

LayParametersAfter(h, rest) == <<h>> \o LayParameters(rest, h.end)

\* A parameter starts after its "|".
LayParameters(ps, off) ==
    IF ps = << >> THEN << >>
    ELSE LayParametersAfter(LayParameter(Head(ps), off + 1), Tail(ps))

\* An item spans its marker and its nodes, not the line end.
LayItem(it, off) ==
    [it EXCEPT !.nodes = LaySeq(it.nodes, off + 1),
               !.start = off,
               !.end = off + 1 + Len(RenderSeq(it.nodes))]

LayItemsAfter(h, rest) == <<h>> \o LayItems(rest, h.end + 1)

LayItems(items, off) ==
    IF items = << >> THEN << >> ELSE LayItemsAfter(LayItem(Head(items), off), Tail(items))

\* Page-level nodes are each followed by a line end.
RECURSIVE RenderPage(_), LayPage(_, _)
RenderPage(s) ==
    IF s = << >> THEN "" ELSE RenderNode(Head(s)) \o "~" \o RenderPage(Tail(s))

LayPageAfter(h, rest) == <<h>> \o LayPage(rest, h.end + 1)

LayPage(s, off) ==
    IF s = << >> THEN << >> ELSE LayPageAfter(LayNode(Head(s), off), Tail(s))

\* &wiki_text[start..end]
Slice(text, start, end) == SubSeq(text, start + 1, end)

----------------------------------------------------------------------------
(* util.rs                                                                 *)

None == [some |-> FALSE]
Some(v) == [some |-> TRUE, v |-> v]
\* Option::unwrap_or_default, given the type's default
unwrap_or(option, default) == IF option.some THEN option.v ELSE default

\* Option<Language>::None
NoLanguage == "none"

\* A callee's result with the context it leaves.
Ret(ctx, value) == [context |-> ctx, value |-> value]

Warning(node, language, message) ==
    [start |-> node.start, end |-> node.end, language |-> language, message |-> message]

\* The debug_assert! of add_warning fails: the call unwinds out of parse.
AssertionFails(ctx) == debug_assertions /\ ~(Len(ctx.warnings) < WarningLimit)

add_warning(ctx, node, message) ==
    IF ctx.panicked THEN ctx
    ELSE IF AssertionFails(ctx) THEN [ctx EXCEPT !.panicked = TRUE]
    ELSE [ctx EXCEPT !.warnings = Append(@, Warning(node, ctx.language, message))]

\* The text of the node the diagnostic is attached to.
warning_node_value(ctx, unknown_node, warning_node) ==
    Slice(ctx.wiki_text, warning_node.start, warning_node.end)

\* &context.wiki_text[unknown_node.start()..unknown_node.end()]
unknown_value(ctx, unknown_node, warning_node) ==
    Slice(ctx.wiki_text, unknown_node.start, unknown_node.end)

\* Flowing::Unknown { value }; `node` remembers the offsets of the node it replaces.
Unknown(ctx, unknown_node, warning_node) ==
    [type |-> "Unknown", value |-> unknown_value(ctx, unknown_node, warning_node),
     node |-> <<unknown_node.start, unknown_node.end>>]

create_unknown2(ctx, unknown_node, warning_node, warning_message) ==
    Ret(add_warning(ctx, warning_node, warning_message),
        Unknown(ctx, unknown_node, warning_node))

create_unknown(ctx, node, warning_message) ==
    create_unknown2(ctx, node, node, warning_message)

\* output.push(..) of what a callee returns, with the context it leaves
Push(output, ret) == Ret(ret.context, Append(output, ret.value))

IsTextual(node) == node.kind \in {"CharacterEntity", "Text"}

RECURSIVE Concat(_)
Concat(ns) == IF ns = << >> THEN "" ELSE Head(ns).value \o Concat(Tail(ns))

parse_text(ns) ==
    IF ns = << >> THEN Some("")
    ELSE IF Len(ns) = 1 /\ ns[1].kind = "Text" THEN Some(ns[1].value)
    ELSE IF \A i \in 1..Len(ns) : IsTextual(ns[i]) THEN Some(Concat(ns))
    ELSE None

\* .filter(|text| !text.is_empty())
not_empty(text) == IF text.some /\ text.v # "" THEN text ELSE None

parse_text_not_empty(ns) == not_empty(parse_text(ns))

text_equals(ns, text) == parse_text(ns) = Some(text)

parse_parameter_name(parameter) ==
    IF parameter.named /\ Len(parameter.name) = 1 /\ parameter.name[1].kind = "Text"
    THEN Some(parameter.name[1].value)
    ELSE None

\* The match of parse_link on the link's text.
link_of_text(ctx, node, text) ==
    IF text.some
    THEN Ret(ctx, [type |-> "Link", target |-> node.value, text |-> text.v])
    ELSE create_unknown(ctx, node, "ValueUnrecognized")

parse_link(ctx, node) == link_of_text(ctx, node, parse_text(node.nodes))

\* The marker element is given whatever parameters the marker carries.
parse_simple_template_any(ctx, node, parameters, output) == Ret(ctx, output)

\* util.rs:132-144
parse_simple_template(ctx, node, parameters, output) ==
    IF parameters = << >>
    THEN Ret(ctx, output)
    ELSE create_unknown(ctx, node, "ValueUnrecognized")

----------------------------------------------------------------------------
(* languages.rs, pos_template.rs                                           *)

\* Language::from_name, for the names the explored pages use; every other
\* name of the table behaves as these do, every name outside it as None.
Language_from_name(name) ==
    CASE name = "Deutsch" -> Some("De")
      [] name = "Englisch" -> Some("En")
      [] name = "Französisch" -> Some("Fr")
      [] name = "Lateinisch" -> Some("La")
      [] OTHER -> None

PosOfName(text) ==
    CASE text = "Abkürzung" -> Some("Abbreviation")
      [] text = "Adjektiv" -> Some("Adjective")
      [] text = "Adverb" -> Some("Adverb")
      [] text = "Deklinierte Form" -> Some("DeclinedForm")
      [] text = "Eigenname" -> Some("ProperNoun")
      [] text = "Interjektion" -> Some("Interjection")
      [] text = "Konjugierte Form" -> Some("ConjugatedForm")
      [] text = "Konjunktion" -> Some("Conjunction")
      [] text = "Lokaladverb" -> Some("LocalAdverb")
      [] text = "Nachname" -> Some("LastName")
      [] text = "Numerale" -> Some("Numeral")
      [] text = "Postposition" -> Some("Postposition")
      [] text = "Präposition" -> Some("Preposition")
      [] text = "Redewendung" -> Some("Idiom")
      [] text = "Sprichwort" -> Some("Proverb")
      [] text = "Symbol" -> Some("Symbol")
      [] text = "Substantiv" -> Some("Noun")
      [] text = "Toponym" -> Some("Toponym")
      [] text = "Verb" -> Some("Verb")
      [] text = "Vorname" -> Some("FirstName")
      [] text = "Wortverbindung" -> Some("CompoundWord")
      [] OTHER -> None

\* .and_then(|text| ..) on the parameter's text
pos_of_text(text) == IF text.some THEN PosOfName(text.v) ELSE None
language_of_text(text) == IF text.some THEN Language_from_name(text.v) ELSE None

pos_of_parameter(parameter) == pos_of_text(parse_text(parameter.value))
language_of_parameter(parameter) == language_of_text(parse_text(parameter.value))

\* The marker's language is resolved and not compared with the active one.
pos_template_language_unchecked(ctx, pos_parameter, language_parameter, pos, language) ==
    IF ~pos.some
    THEN Ret(add_warning(ctx, pos_parameter, "ValueUnrecognized"), None)
    ELSE IF ~language.some
    THEN Ret(add_warning(ctx, language_parameter, "ValueUnrecognized"), None)
    ELSE Ret(ctx, pos)

\* pos_template.rs:25-57, the parameters being two and unnamed.
pos_template_checked(ctx, pos_parameter, language_parameter, pos, language) ==
    IF ~pos.some
    THEN Ret(add_warning(ctx, pos_parameter, "ValueUnrecognized"), None)
    ELSE IF ~language.some
    THEN Ret(add_warning(ctx, language_parameter, "ValueUnrecognized"), None)
    ELSE IF language.v = ctx.language
    THEN Ret(ctx, pos)
    ELSE Ret(add_warning(ctx, language_parameter, "ValueConflicting"), None)

parse_pos_template(ctx, template_node, parameters) ==
    IF Len(parameters) = 2 /\ ~parameters[1].named /\ ~parameters[2].named
    THEN pos_template_checked(ctx, parameters[1], parameters[2],
                              pos_of_parameter(parameters[1]),
                              language_of_parameter(parameters[2]))
    ELSE Ret(add_warning(ctx, template_node, "ValueUnrecognized"), None)

----------------------------------------------------------------------------
(* language.rs: the details of a part-of-speech heading                    *)

Flow(type) == [type |-> type]
FlowText(value) == [type |-> "Text", value |-> value]

\* str::trim_left, for the blanks the explored texts hold
RECURSIVE trim_left(_)
trim_left(value) ==
    IF value # "" /\ SubSeq(value, 1, 1) = " "
    THEN trim_left(SubSeq(value, 2, Len(value)))
    ELSE value

starts_with_comma(value) == value # "" /\ SubSeq(value, 1, 1) = ","

parse_gender_combination_template(ctx, node, parameters, output, gender1, gender2) ==
    IF parameters = << >>
    THEN Ret(ctx, output \o <<Flow(gender1), FlowText(", "), Flow(gender2)>>)
    ELSE Push(output, create_unknown(ctx, node, "ValueUnrecognized"))

Gender(name) ==
    CASE name = "f" -> "FeminineGender"
      [] name = "m" -> "MasculineGender"
      [] name = "n" -> "NeuterGender"
      [] name = "u" -> "CommonGender"

\* The two genders of a combination marker.
Gender1(name) == Gender(SubSeq(name, 1, 1))
Gender2(name) == Gender(SubSeq(name, 2, 2))

GenderNames == {"f", "m", "n", "u"}
GenderCombinationNames == {"fm", "fn", "mf", "mn.", "nf", "nm"}

\* The "Wortart" arm of parse_details, language.rs:100-107.
details_pos(ctx, node, details, pos) ==
    Ret(pos.context,
        Append(details,
               IF pos.value.some
               THEN [type |-> "Pos", pos |-> pos.value.v]
               ELSE Unknown(pos.context, node, node)))

\* The Node::Template arm of parse_details, the name being `name`.
parse_details_template(ctx, node, details, name) ==
    IF ~name.some THEN Push(details, create_unknown(ctx, node, "Unrecognized"))
    ELSE CASE name.v = "Wortart" ->
                details_pos(ctx, node, details,
                            parse_pos_template(ctx, node, node.parameters))
           [] name.v \in GenderNames ->
                Push(details,
                     parse_simple_template(ctx, node, node.parameters,
                                           Flow(Gender(name.v))))
           [] name.v \in GenderCombinationNames ->
                parse_gender_combination_template(
                    ctx, node, node.parameters, details, Gender1(name.v), Gender2(name.v))
           [] OTHER -> Push(details, create_unknown(ctx, node, "Unrecognized"))

\* value.trim_left(), and past a leading comma once more
trim_detail(trimmed) ==
    IF starts_with_comma(trimmed) THEN trim_left(SubSeq(trimmed, 2, Len(trimmed)))
    ELSE trimmed

push_text_not_empty(details, value) ==
    IF value = "" THEN details ELSE Append(details, FlowText(value))

\* The Node::Text arm of parse_details.
parse_details_text(value, details) ==
    IF details = << >>
    THEN push_text_not_empty(details, trim_detail(trim_left(value)))
    ELSE Append(details, FlowText(value))

\* One iteration of the loop of parse_details.
parse_details_node(ctx, node, details) ==
    CASE node.kind = "Italic" -> Ret(ctx, Append(details, Flow("Italic")))
      [] node.kind = "Link" -> Push(details, parse_link(ctx, node))
      [] node.kind = "Template" ->
            parse_details_template(ctx, node, details, parse_text(node.name))
      [] node.kind = "Text" -> Ret(ctx, parse_details_text(node.value, details))
      [] OTHER -> Push(details, create_unknown(ctx, node, "Unrecognized"))

\* The loop of parse_details over the nodes left, `ret` holding the context
\* and the details so far.
RECURSIVE parse_details_from(_, _)
parse_details_from(ret, ns) ==
    IF ns = << >> THEN ret
    ELSE parse_details_from(parse_details_node(ret.context, Head(ns), ret.value), Tail(ns))

parse_details(ctx, ns) == parse_details_from(Ret(ctx, << >>), ns)

----------------------------------------------------------------------------
(* list.rs                                                                 *)

\* '\u{a0}'
Nbsp == "NBSP"

\* The language_adjectives and languages of the parse_list_item! table that
\* the explored pages use (the table's other codes behave alike), and its
\* simple markers in full.
LanguageAdjectives == {"ahd", "de", "en", "lat"}
Languages == {"de", "en", "la"}

LanguageAdjectiveNames == {code \o "." : code \in LanguageAdjectives}

SimpleVariant(name) ==
    CASE name = "Komp." -> "Comparative"
      [] name = "Part." -> "PastParticiple"
      [] name = "Pl." -> "Plural"
      [] name = "Pl.1" -> "Plural1"
      [] name = "Pl.2" -> "Plural2"
      [] name = "Pl.3" -> "Plural3"
      [] name = "Pl.4" -> "Plural4"
      [] name = "Prät." -> "Preterite"
      [] name = "Sup." -> "Superlative"
      [] name = "kPl." -> "NoPlural"

SimpleNames ==
    {"Komp.", "Part.", "Pl.", "Pl.1", "Pl.2", "Pl.3", "Pl.4", "Prät.", "Sup.", "kPl."}

\* What a parameterless marker of the table stands for.
SimpleOutput(name) ==
    IF name \in LanguageAdjectiveNames
    THEN [type |-> "LanguageAdjective", language |-> SubSeq(name, 1, Len(name) - 1)]
    ELSE IF name \in Languages
    THEN [type |-> "Language", language |-> name]
    ELSE Flow(SimpleVariant(name))

WortbildungPos(text) ==
    CASE text \in {"Adj", "Adje", "Adjektiv", "Adjektive"} -> Some("Adjective")
      [] text \in {"Adv", "Adve", "Adverb", "Adverbien"} -> Some("Adverb")
      [] text \in {"Sub", "Subs", "Substantiv", "Substantive"} -> Some("Noun")
      [] text \in {"Ver", "Verb", "Verben"} -> Some("Verb")
      [] OTHER -> None

wortbildung_of_text(text) == IF text.some THEN WortbildungPos(text.v) ELSE None

AllUnnamed(parameters, count) ==
    /\ Len(parameters) = count
    /\ \A i \in 1..count : ~parameters[i].named

\* Flowing::Pos, or the Unknown parse_pos falls through to.
pos_or_unknown(ctx, template_node, pos) ==
    IF pos.some
    THEN Ret(ctx, [type |-> "Pos", pos |-> pos.v])
    ELSE create_unknown(ctx, template_node, "ValueUnrecognized")

parse_pos(ctx, template_node, parameters) ==
    pos_or_unknown(ctx, template_node,
                   IF AllUnnamed(parameters, 1)
                   THEN wortbildung_of_text(parse_text(parameters[1].value))
                   ELSE None)

FlowTerm(language, term, transliteration) ==
    [type |-> "Term", language |-> language, term |-> term,
     transliteration |-> transliteration]

\* The term is taken as it is, empty or not.
term_checked_lenient(ctx, template_node, parameters, language, term) ==
    IF ~language.some
    THEN create_unknown2(ctx, template_node, parameters[1], "ValueUnrecognized")
    ELSE Ret(ctx, FlowTerm(language.v, IF term.some THEN term.v ELSE "", None))

\* The nested matches of parse_term on the texts of its parameters.
term_checked(ctx, template_node, parameters, language, term) ==
    IF ~language.some
    THEN create_unknown2(ctx, template_node, parameters[1], "ValueUnrecognized")
    ELSE IF ~term.some
    THEN create_unknown2(ctx, template_node, parameters[2], "ValueUnrecognized")
    ELSE Ret(ctx, FlowTerm(language.v, term.v, None))

parse_term(ctx, template_node, parameters) ==
    IF AllUnnamed(parameters, 2)
    THEN term_checked(ctx, template_node, parameters,
                      parse_text_not_empty(parameters[1].value),
                      parse_text_not_empty(parameters[2].value))
    ELSE create_unknown(ctx, template_node, "ValueUnrecognized")

\* The nested matches of parse_term_transliteration.
term_transliteration_checked(ctx, template_node, parameters, language, term,
                             transliteration) ==
    IF ~language.some
    THEN create_unknown2(ctx, template_node, parameters[1], "ValueUnrecognized")
    ELSE IF ~term.some
    THEN create_unknown2(ctx, template_node, parameters[2], "ValueUnrecognized")
    ELSE IF ~transliteration.some
    THEN create_unknown2(ctx, template_node, parameters[3], "ValueUnrecognized")
    ELSE Ret(ctx, FlowTerm(language.v, term.v, transliteration))

parse_term_transliteration(ctx, template_node, parameters) ==
    IF AllUnnamed(parameters, 3)
    THEN term_transliteration_checked(ctx, template_node, parameters,
                                      parse_text_not_empty(parameters[1].value),
                                      parse_text_not_empty(parameters[2].value),
                                      parse_text_not_empty(parameters[3].value))
    ELSE create_unknown(ctx, template_node, "ValueUnrecognized")

\* The Node::Template arm of parse_list_item, the name being `name`.
parse_list_item_template(ctx, node, name) ==
    IF ~name.some THEN create_unknown(ctx, node, "Unrecognized")
    ELSE CASE name.v \in {"QS Herkunft", "QS_Herkunft"} ->
                Ret(add_warning(ctx, node, "Supplementary"), Flow("QualityControl"))
           [] name.v = "Wortbildung" -> parse_pos(ctx, node, node.parameters)
           [] name.v = "Ü" -> parse_term(ctx, node, node.parameters)
           [] name.v = "Üt" -> parse_term_transliteration(ctx, node, node.parameters)
           [] name.v \in LanguageAdjectiveNames \cup Languages \cup SimpleNames ->
                parse_simple_template(ctx, node, node.parameters, SimpleOutput(name.v))
           [] OTHER -> create_unknown(ctx, node, "Unrecognized")

RECURSIVE parse_list_item_from(_, _, _), parse_nested_items(_, _)

\* A nested list is pushed whatever it holds.
push_list_always(output, items) ==
    Ret(items.context, Append(output, [type |-> "List", items |-> items.value]))

\* if items.is_empty() { None } else { Some(Flowing::List { items }) }
push_list(output, items) ==
    Ret(items.context,
        IF items.value = << >> THEN output
        ELSE Append(output, [type |-> "List", items |-> items.value]))

\* One node of parse_list_item's filter_map, `output` holding the elements so far.
parse_list_item_node(ctx, node, allow_list, output) ==
    CASE node.kind = "Bold" -> Ret(ctx, Append(output, Flow("Bold")))
      [] node.kind = "CharacterEntity" /\ node.value = Nbsp ->
            Ret(ctx, Append(output, FlowText(Nbsp)))
      [] node.kind = "Comment" ->
            Ret(add_warning(ctx, node, "Supplementary"), Append(output, Flow("Comment")))
      [] node.kind = "EndTag" /\ node.value = "sup" ->
            Ret(ctx, Append(output, Flow("SuperscriptEnd")))
      [] node.kind = "Italic" -> Ret(ctx, Append(output, Flow("Italic")))
      [] node.kind = "Link" -> Push(output, parse_link(ctx, node))
      [] node.kind = "StartTag" /\ node.value = "sup" ->
            Ret(ctx, Append(output, Flow("SuperscriptStart")))
      [] node.kind = "Tag" /\ node.value = "ref" ->
            Ret(add_warning(ctx, node, "Supplementary"), Append(output, Flow("Reference")))
      [] node.kind = "Template" ->
            Push(output, parse_list_item_template(ctx, node, parse_text(node.name)))
      [] node.kind = "Text" -> Ret(ctx, Append(output, FlowText(node.value)))
      [] node.kind = "UnorderedList" /\ allow_list ->
            push_list(output, parse_nested_items(Ret(ctx, << >>), node.items))
      [] OTHER -> Push(output, create_unknown(ctx, node, "Unrecognized"))

\* The filter_map of parse_list_item over the nodes left, `ret` holding the
\* context and the elements so far.
parse_list_item_from(ret, ns, allow_list) ==
    IF ns = << >> THEN ret
    ELSE parse_list_item_from(
            parse_list_item_node(ret.context, Head(ns), allow_list, ret.value),
            Tail(ns), allow_list)

parse_list_item(ctx, ns, allow_list) ==
    parse_list_item_from(Ret(ctx, << >>), ns, allow_list)

\* One item of a nested unordered list (the inner filter_map).
parse_nested_item(ctx, item, output) ==
    IF item.nodes = << >>
    THEN Ret(add_warning(ctx, item, "Empty"), output)
    ELSE Push(output, parse_list_item(ctx, item.nodes, FALSE))

parse_nested_items(ret, items) ==
    IF items = << >> THEN ret
    ELSE parse_nested_items(parse_nested_item(ret.context, Head(items), ret.value),
                            Tail(items))

\* Some(..) of what a callee returns, with the context it leaves
SomeOf(ret) == Ret(ret.context, Some(ret.value))

\* The closure parse_list hands to parse_list_items_generic: Option<Vec<Flowing>>
parse_list_closure(ctx, list_item) ==
    IF list_item.nodes = << >>
    THEN Ret(add_warning(ctx, list_item, "Empty"), None)
    ELSE SomeOf(parse_list_item(ctx, list_item.nodes, TRUE))

----------------------------------------------------------------------------
(* examples.rs                                                             *)

\* One node of the translation of an example (the inner map).
parse_translation_node(ctx, node, output) ==
    CASE node.kind = "Italic" -> Ret(ctx, Append(output, Flow("Italic")))
      [] node.kind = "Text" -> Ret(ctx, Append(output, FlowText(node.value)))
      [] OTHER -> Push(output, create_unknown(ctx, node, "Unrecognized"))

RECURSIVE parse_translation(_, _)
parse_translation(ret, ns) ==
    IF ns = << >> THEN ret
    ELSE parse_translation(parse_translation_node(ret.context, Head(ns), ret.value),
                           Tail(ns))

\* while let Some(node) = iterator.next() { add_warning(.., Unrecognized) }
RECURSIVE warn_each(_, _, _)
warn_each(ctx, ns, message) ==
    IF ns = << >> THEN ctx
    ELSE warn_each(add_warning(ctx, Head(ns), message), Tail(ns), message)

\* The state of parse_example's loop: the context and its three locals.
ExampleState(ctx, example, has_text, translation) ==
    [context |-> ctx, example |-> example, has_text |-> has_text,
     translation |-> translation]

\* The nested list of an example: its translation, examples.rs:43-66.
parse_example_translation(ctx, node) ==
    IF Len(node.items) = 1 /\ node.items[1].type_ = "Details"
    THEN IF node.items[1].nodes = << >>
         THEN Ret(add_warning(ctx, node.items[1], "Empty"), << >>)
         ELSE parse_translation(Ret(ctx, << >>), node.items[1].nodes)
    ELSE Ret(add_warning(ctx, node, "ValueUnrecognized"), << >>)

\* The nodes after the nested list are passed over in silence.
example_translated_silent(state, translated, after) ==
    ExampleState(translated.context, state.example, state.has_text, translated.value)

\* The nodes after the nested list are reported and the loop is left.
example_translated(state, translated, after) ==
    ExampleState(warn_each(translated.context, after, "Unrecognized"),
                 state.example, state.has_text, translated.value)

\* example.push(create_unknown(..))
example_unknown(state, unknown) ==
    ExampleState(unknown.context, Append(state.example, unknown.value),
                 state.has_text, state.translation)

\* The loop of parse_example over the nodes left.
RECURSIVE parse_example_from(_, _)
parse_example_from(state, ns) ==
    IF ns = << >> THEN state
    ELSE CASE Head(ns).kind = "Italic" ->
                parse_example_from(
                    [state EXCEPT !.example = Append(@, Flow("Italic"))], Tail(ns))
           [] Head(ns).kind = "Tag" /\ Head(ns).value = "ref" ->
                parse_example_from(
                    [state EXCEPT
                        !.context = add_warning(@, Head(ns), "Supplementary"),
                        !.example = Append(@, Flow("Reference"))],
                    Tail(ns))
           [] Head(ns).kind = "Text" ->
                parse_example_from(
                    [state EXCEPT !.example = Append(@, FlowText(Head(ns).value)),
                                  !.has_text = TRUE],
                    Tail(ns))
           [] Head(ns).kind = "DefinitionList" ->
                example_translated(
                    state, parse_example_translation(state.context, Head(ns)), Tail(ns))
           [] OTHER ->
                parse_example_from(
                    example_unknown(
                        state, create_unknown(state.context, Head(ns), "Unrecognized")),
                    Tail(ns))

\* An Example is given only for an item that holds a translation.
example_of_translated(scanned, list_item) ==
    IF scanned.translation # << >>
    THEN Ret(scanned.context,
             Some([example |-> scanned.example, translation |-> scanned.translation]))
    ELSE Ret(add_warning(scanned.context, list_item, "Empty"), None)

\* if has_text { Some(Example { .. }) } else { add_warning(.., Empty); None }
example_of(scanned, list_item) ==
    IF scanned.has_text
    THEN Ret(scanned.context,
             Some([example |-> scanned.example, translation |-> scanned.translation]))
    ELSE Ret(add_warning(scanned.context, list_item, "Empty"), None)

parse_example(ctx, list_item) ==
    example_of(parse_example_from(ExampleState(ctx, << >>, FALSE, << >>), list_item.nodes),
               list_item)

----------------------------------------------------------------------------
(* pronunciation.rs                                                        *)

\* The locals of parse_template_audio's loop.
AudioState(file_name, label, language, parameter_index) ==
    [file_name |-> file_name, label |-> label, language |-> language,
     parameter_index |-> parameter_index]

RECURSIVE parse_template_audio_from(_, _, _, _)

\* parse_parameter!: the slot takes the parameter's text and the loop goes on,
\* or the template is returned as Unknown.
parse_parameter(ctx, template_node, ps, state, text) ==
    IF text.some
    THEN parse_template_audio_from(ctx, template_node, Tail(ps), state)
    ELSE create_unknown2(ctx, template_node, Head(ps), "ValueUnrecognized")

\* One iteration of the loop of parse_template_audio, `text` being
\* parse_text_not_empty of the parameter's value.
parse_template_audio_parameter(ctx, template_node, ps, state, text) ==
    IF ~Head(ps).named
    THEN CASE state.parameter_index + 1 = 1 ->
                parse_parameter(
                    ctx, template_node, ps,
                    [state EXCEPT !.parameter_index = 1, !.file_name = text], text)
           [] state.parameter_index + 1 = 2 ->
                parse_parameter(
                    ctx, template_node, ps,
                    [state EXCEPT !.parameter_index = 2, !.label = text], text)
           [] OTHER -> create_unknown2(ctx, template_node, Head(ps), "Unrecognized")
    ELSE IF parse_parameter_name(Head(ps)) = Some("spr")
    THEN IF state.language.some
         THEN create_unknown2(ctx, template_node, Head(ps), "Duplicate")
         ELSE parse_parameter(ctx, template_node, ps, [state EXCEPT !.language = text],
                              text)
    ELSE create_unknown2(ctx, template_node, Head(ps), "Unrecognized")

\* The loop of parse_template_audio over the parameters left, and its end.
parse_template_audio_from(ctx, template_node, ps, state) ==
    IF ps = << >>
    THEN IF state.file_name.some
         THEN Ret(ctx, [type |-> "Audio", file_name |-> state.file_name.v,
                        label |-> state.label, language |-> state.language])
         ELSE create_unknown(ctx, template_node, "Empty")
    ELSE parse_template_audio_parameter(ctx, template_node, ps, state,
                                        parse_text_not_empty(Head(ps).value))

parse_template_audio(ctx, template_node, parameters) ==
    IF AllUnnamed(parameters, 1) /\ parameters[1].value = << >>
    THEN Ret(ctx, Flow("EmptyAudio"))
    ELSE parse_template_audio_from(ctx, template_node, parameters,
                                   AudioState(None, None, None, 0))

\* The match of parse_template_ipa on the parameter's text.
ipa_checked(ctx, template_node, parameter, ipa) ==
    IF ipa.some
    THEN Ret(ctx, [type |-> "Ipa", ipa |-> ipa.v])
    ELSE create_unknown2(ctx, template_node, parameter, "ValueUnrecognized")

parse_template_ipa(ctx, template_node, parameters) ==
    IF AllUnnamed(parameters, 1)
    THEN ipa_checked(ctx, template_node, parameters[1],
                     parse_text_not_empty(parameters[1].value))
    ELSE create_unknown(ctx, template_node, "ValueUnrecognized")

\* A rhyme of any known language is taken.
rhyme_checked_any_language(ctx, template_node, parameters, rhyme, language) ==
    IF ~rhyme.some
    THEN create_unknown2(ctx, template_node, parameters[1], "ValueUnrecognized")
    ELSE IF ~language.some
    THEN create_unknown2(ctx, template_node, parameters[2], "ValueUnrecognized")
    ELSE Ret(ctx, [type |-> "Rhyme", rhyme |-> rhyme.v])

\* The nested matches of parse_template_rhyme.
rhyme_checked(ctx, template_node, parameters, rhyme, language) ==
    IF ~rhyme.some
    THEN create_unknown2(ctx, template_node, parameters[1], "ValueUnrecognized")
    ELSE IF ~language.some
    THEN create_unknown2(ctx, template_node, parameters[2], "ValueUnrecognized")
    ELSE IF language.v = ctx.language
    THEN Ret(ctx, [type |-> "Rhyme", rhyme |-> rhyme.v])
    ELSE create_unknown2(ctx, template_node, parameters[2], "ValueConflicting")

parse_template_rhyme(ctx, template_node, parameters) ==
    IF AllUnnamed(parameters, 2)
    THEN rhyme_checked(ctx, template_node, parameters,
                       parse_text_not_empty(parameters[1].value),
                       language_of_parameter(parameters[2]))
    ELSE create_unknown(ctx, template_node, "ValueUnrecognized")

AudioSimpleVariant(name) ==
    CASE name = "Gen." -> "Genitive"
      [] name = "Part." -> "PastParticiple"
      [] name = "Pl." -> "Plural"
      [] name = "Pl.1" -> "Plural1"
      [] name = "Pl.2" -> "Plural2"
      [] name = "Pl.3" -> "Plural3"
      [] name = "Pl.4" -> "Plural4"
      [] name = "Prät." -> "Preterite"

AudioSimpleNames == {"Gen.", "Part.", "Pl.", "Pl.1", "Pl.2", "Pl.3", "Pl.4", "Prät."}

\* The Node::Template arm of parse_audio's loop, the name being `name`.
parse_audio_template(ctx, node, name) ==
    IF ~name.some THEN create_unknown(ctx, node, "Unrecognized")
    ELSE CASE name.v = "Audio" -> parse_template_audio(ctx, node, node.parameters)
           [] name.v = "Lautschrift" -> parse_template_ipa(ctx, node, node.parameters)
           [] name.v = "Reim" -> parse_template_rhyme(ctx, node, node.parameters)
           [] name.v \in AudioSimpleNames ->
                parse_simple_template(
                    ctx, node, node.parameters, Flow(AudioSimpleVariant(name.v)))
           [] OTHER -> create_unknown(ctx, node, "Unrecognized")

\* The Node::Text arm of parse_audio's loop.
parse_audio_text(value, output_nodes) ==
    IF output_nodes = << >>
    THEN push_text_not_empty(output_nodes, trim_left(value))
    ELSE Append(output_nodes, FlowText(value))

\* One iteration of the loop of parse_audio.
parse_audio_node(ctx, node, output_nodes) ==
    CASE node.kind = "Template" ->
            Push(output_nodes, parse_audio_template(ctx, node, parse_text(node.name)))
      [] node.kind = "Text" -> Ret(ctx, parse_audio_text(node.value, output_nodes))
      [] OTHER -> Push(output_nodes, create_unknown(ctx, node, "Unrecognized"))

\* The loop of parse_audio over the nodes left, `ret` holding the context and
\* output_nodes.
RECURSIVE parse_audio_from(_, _)
parse_audio_from(ret, ns) ==
    IF ns = << >> THEN ret
    ELSE parse_audio_from(parse_audio_node(ret.context, Head(ns), ret.value), Tail(ns))

\* The end of parse_audio, pronunciation.rs:194-197.
audio_parsed(template_node, parsed) ==
    Ret(IF parsed.value = << >>
        THEN add_warning(parsed.context, template_node, "SectionEmpty")
        ELSE parsed.context,
        Some(parsed.value))

\* parse_audio: the context and the slot it leaves.
parse_audio(ctx, list_item, template_node, parameters, output) ==
    IF output.some
    THEN Ret(add_warning(ctx, template_node, "Duplicate"), Some(<< >>))
    ELSE IF parameters # << >>
    THEN Ret(add_warning(ctx, template_node, "ValueUnrecognized"), Some(<< >>))
    ELSE audio_parsed(template_node,
                      parse_audio_from(Ret(ctx, << >>), Tail(list_item.nodes)))

\* Pronunciation::default()
DefaultPronunciation == [audio |-> << >>, ipa |-> << >>, rhymes |-> << >>]

\* The three slots of the closure of parse_pronunciation.
NoPronunciationSlots == [audio |-> None, ipa |-> None, rhymes |-> None]

PronunciationNames == {"Hörbeispiele", "IPA", "Reime"}

PronunciationSlot(name) ==
    CASE name = "Hörbeispiele" -> "audio"
      [] name = "IPA" -> "ipa"
      [] name = "Reime" -> "rhymes"

\* The slot takes what parse_audio leaves in it.
slot_parsed(slots, slot, parsed) ==
    Ret(parsed.context, [slots EXCEPT ![slot] = parsed.value])

\* The name of the item's first node when it is a template with a textual name.
first_template_name(node) ==
    IF node.kind = "Template" THEN parse_text(node.name) ELSE None

\* The match on the first node of an item, its name being `name`.
parse_pronunciation_named(ctx, item, slots, name) ==
    IF name.some /\ name.v \in PronunciationNames
    THEN slot_parsed(slots, PronunciationSlot(name.v),
                     parse_audio(ctx, item, item.nodes[1], item.nodes[1].parameters,
                                 slots[PronunciationSlot(name.v)]))
    ELSE Ret(add_warning(ctx, item.nodes[1], "Unrecognized"), slots)

\* One item of the closure's loop: the context and the slots it leaves.
parse_pronunciation_item(ctx, item, slots) ==
    IF item.type_ # "Details"
    THEN Ret(add_warning(ctx, item, "Unrecognized"), slots)
    ELSE IF item.nodes = << >>
    THEN Ret(add_warning(ctx, item, "Empty"), slots)
    ELSE parse_pronunciation_named(ctx, item, slots, first_template_name(item.nodes[1]))

RECURSIVE parse_pronunciation_items(_, _)
parse_pronunciation_items(ret, items) ==
    IF items = << >> THEN ret
    ELSE parse_pronunciation_items(
            parse_pronunciation_item(ret.context, Head(items), ret.value), Tail(items))

\* Pronunciation { audio: audio.unwrap_or_default(), .. }
pronunciation_of(parsed) ==
    Ret(parsed.context,
        [audio |-> unwrap_or(parsed.value.audio, << >>),
         ipa |-> unwrap_or(parsed.value.ipa, << >>),
         rhymes |-> unwrap_or(parsed.value.rhymes, << >>)])

\* The closure parse_pronunciation hands to parse_list_generic.
parse_pronunciation_closure(ctx, items) ==
    pronunciation_of(parse_pronunciation_items(Ret(ctx, NoPronunciationSlots), items))

----------------------------------------------------------------------------
(* overview.rs                                                             *)

OverviewNamesDe ==
    {"Bairisch Substantiv Übersicht m", "Bairisch Substantiv Übersicht n",
     "Bairisch Verb Übersicht", "Deutsch Adjektiv Übersicht", "Deutsch Adverb Übersicht",
     "Deutsch Eigenname Übersicht", "Deutsch Nachname Übersicht",
     "Deutsch Personalpronomen 1", "Deutsch Personalpronomen 2",
     "Deutsch Personalpronomen 3", "Deutsch Personalpronomen Berliner Dialekt",
     "Deutsch Pronomen Übersicht", "Deutsch Substantiv Dialekt",
     "Deutsch Substantiv Übersicht", "Deutsch Substantiv Übersicht -sch",
     "Deutsch Toponym Übersicht", "Deutsch Verb Übersicht",
     "Deutsch adjektivisch Übersicht", "Kardinalzahl 2-12",
     "Possessivpronomina-Tabelle", "Pronomina-Tabelle"}

OverviewNamesEn ==
    {"Englisch Adjektiv Übersicht", "Englisch Personalpronomen 2",
     "Englisch Personalpronomen", "Englisch Substantiv Übersicht",
     "Englisch Verb Übersicht"}

\* The match on (context.language.unwrap(), name)
IsOverview(language, name) ==
    \/ language = "De" /\ name \in OverviewNamesDe
    \/ language = "En" /\ name \in OverviewNamesEn

\* HashMap::insert
Insert(map, key, value) ==
    [k \in DOMAIN map \cup {key} |-> IF k = key THEN value ELSE map[k]]

\* One node of an unnamed parameter's value (the inner map).
parse_overview_value_node(ctx, node, output) ==
    CASE node.kind = "Italic" -> Ret(ctx, Append(output, Flow("Italic")))
      [] node.kind = "Text" -> Ret(ctx, Append(output, FlowText(node.value)))
      [] OTHER -> Push(output, create_unknown(ctx, node, "Unrecognized"))

RECURSIVE parse_overview_value(_, _)
parse_overview_value(ret, ns) ==
    IF ns = << >> THEN ret
    ELSE parse_overview_value(parse_overview_value_node(ret.context, Head(ns), ret.value),
                              Tail(ns))

\* The state of parse_overview's loop: the context and its two locals.
OverviewState(ctx, named_parameters, unnamed_parameters) ==
    [context |-> ctx, named_parameters |-> named_parameters,
     unnamed_parameters |-> unnamed_parameters]

\* unnamed_parameters.push(..)
overview_unnamed(state, parsed) ==
    OverviewState(parsed.context, state.named_parameters,
                  Append(state.unnamed_parameters, parsed.value))

\* if named_parameters.contains_key(name) { add_warning(.., Duplicate) }
overview_duplicate(state, parameter, name) ==
    IF name \in DOMAIN state.named_parameters
    THEN [state EXCEPT !.context = add_warning(@, parameter, "Duplicate")]
    ELSE state

\* The first value stored under a name is kept.
overview_named_value_first(state, parameter, name, value) ==
    IF value.some
    THEN IF name \in DOMAIN state.named_parameters THEN state
         ELSE [state EXCEPT !.named_parameters = Insert(@, name, value.v)]
    ELSE [state EXCEPT !.context = add_warning(@, parameter, "ValueUnrecognized")]

\* The match on the named parameter's text.
overview_named_value(state, parameter, name, value) ==
    IF value.some
    THEN [state EXCEPT !.named_parameters = Insert(@, name, value.v)]
    ELSE [state EXCEPT !.context = add_warning(@, parameter, "ValueUnrecognized")]

\* The Some(_) arm of the loop, the parameter's name being `name`.
overview_named(state, parameter, name) ==
    IF ~name.some
    THEN [state EXCEPT !.context = add_warning(@, parameter, "Unrecognized")]
    ELSE overview_named_value(overview_duplicate(state, parameter, name.v), parameter,
                              name.v, parse_text(parameter.value))

\* One iteration of the loop of parse_overview.
parse_overview_parameter(state, parameter) ==
    IF ~parameter.named
    THEN overview_unnamed(state,
                          parse_overview_value(Ret(state.context, << >>), parameter.value))
    ELSE overview_named(state, parameter, parse_parameter_name(parameter))

RECURSIVE parse_overview_parameters(_, _)
parse_overview_parameters(state, ps) ==
    IF ps = << >> THEN state
    ELSE parse_overview_parameters(parse_overview_parameter(state, Head(ps)), Tail(ps))

\* What parse_overview leaves: the context, the slot, and the value returned.
OverviewResult(ctx, output, value) ==
    [context |-> ctx, output |-> output, value |-> value]

\* *output = Some(Some(Overview { .. })); true
overview_of(name, parsed) ==
    OverviewResult(parsed.context,
                   Some(Some([name |-> name,
                              named_parameters |-> parsed.named_parameters,
                              unnamed_parameters |-> parsed.unnamed_parameters])),
                   TRUE)

\* context.language.unwrap() panics when no language is active.
parse_overview(ctx, template_node, name, parameters, output) ==
    IF ctx.language = NoLanguage
    THEN OverviewResult([ctx EXCEPT !.panicked = TRUE], output, FALSE)
    ELSE IF ~IsOverview(ctx.language, name)
    THEN OverviewResult(ctx, output, FALSE)
    ELSE IF output.some
    THEN OverviewResult(add_warning(ctx, template_node, "Duplicate"), Some(None), TRUE)
    ELSE overview_of(name,
                     parse_overview_parameters(OverviewState(ctx, << >>, << >>),
                                               parameters))

----------------------------------------------------------------------------
(* util.rs: the generic section extractor                                  *)

\* filter_map: the item's value joins the output when it is Some.
push_some(output, ret) ==
    Ret(ret.context, IF ret.value.some THEN Append(output, ret.value.v) ELSE output)

\* One item of the closure parse_list_items_generic builds around a per-item
\* parser: `kind` names the caller ("list" for list::parse_list, "examples").
parse_items_item(ctx, item, kind, output) ==
    IF item.type_ = "Details"
    THEN IF kind = "examples"
         THEN push_some(output, parse_example(ctx, item))
         ELSE push_some(output, parse_list_closure(ctx, item))
    ELSE Ret(add_warning(ctx, item, "Unrecognized"), output)

RECURSIVE parse_items_closure(_, _, _)
parse_items_closure(ret, items, kind) ==
    IF items = << >> THEN ret
    ELSE parse_items_closure(parse_items_item(ret.context, Head(items), kind, ret.value),
                             Tail(items), kind)

\* The parse_list argument of parse_list_generic, by the section's kind.
parse_list_by_kind(ctx, items, kind) ==
    IF kind = "pronunciation"
    THEN parse_pronunciation_closure(ctx, items)
    ELSE parse_items_closure(Ret(ctx, << >>), items, kind)

\* Default::default() of the slot's type
DefaultOf(kind) == IF kind = "pronunciation" THEN DefaultPronunciation ELSE << >>

\* What parse_list_generic leaves: the context, the slot, and the count returned.
ListResult(ctx, output, value) == [context |-> ctx, output |-> output, value |-> value]

\* *output = Some(parse_list(context, items)); return 1
list_parsed(parsed) == ListResult(parsed.context, Some(parsed.value), 1)

\* A repeated marker is reported and the slot keeps what it holds.
parse_list_generic_keeping(ctx, template_node, parameters, ns, output, kind) ==
    IF output.some
    THEN ListResult(add_warning(ctx, template_node, "Duplicate"), output, 0)
    ELSE IF parameters # << >>
    THEN ListResult(add_warning(ctx, template_node, "ValueUnrecognized"),
                    Some(DefaultOf(kind)), 0)
    ELSE IF ns # << >> /\ ns[1].kind = "DefinitionList"
    THEN list_parsed(parse_list_by_kind(ctx, ns[1].items, kind))
    ELSE ListResult(add_warning(ctx, template_node, "SectionEmpty"),
                    Some(DefaultOf(kind)), 0)

\* Number of nodes a rejecting call takes with it: a list behind the marker.
swallowed(ns) == IF ns # << >> /\ ns[1].kind = "DefinitionList" THEN 1 ELSE 0

\* A rejected marker takes the list behind it with it.
parse_list_generic_swallowing(ctx, template_node, parameters, ns, output, kind) ==
    IF output.some
    THEN ListResult(add_warning(ctx, template_node, "Duplicate"), Some(DefaultOf(kind)),
                    swallowed(ns))
    ELSE IF parameters # << >>
    THEN ListResult(add_warning(ctx, template_node, "ValueUnrecognized"),
                    Some(DefaultOf(kind)), swallowed(ns))
    ELSE IF ns # << >> /\ ns[1].kind = "DefinitionList"
    THEN list_parsed(parse_list_by_kind(ctx, ns[1].items, kind))
    ELSE ListResult(add_warning(ctx, template_node, "SectionEmpty"),
                    Some(DefaultOf(kind)), 0)

\* A slot that was emptied is filled again from a later list.
parse_list_generic_refilling(ctx, template_node, parameters, ns, output, kind) ==
    IF output.some /\ output # Some(DefaultOf(kind))
    THEN ListResult(add_warning(ctx, template_node, "Duplicate"), Some(DefaultOf(kind)), 0)
    ELSE IF parameters # << >>
    THEN ListResult(add_warning(ctx, template_node, "ValueUnrecognized"),
                    Some(DefaultOf(kind)), 0)
    ELSE IF ns # << >> /\ ns[1].kind = "DefinitionList"
    THEN list_parsed(parse_list_by_kind(ctx, ns[1].items, kind))
    ELSE ListResult(add_warning(ctx, template_node, "SectionEmpty"),
                    Some(DefaultOf(kind)), 0)

\* The node after the marker is counted as consumed whatever it is.
parse_list_generic_counting(ctx, template_node, parameters, ns, output, kind) ==
    IF output.some
    THEN ListResult(add_warning(ctx, template_node, "Duplicate"), Some(DefaultOf(kind)), 0)
    ELSE IF parameters # << >>
    THEN ListResult(add_warning(ctx, template_node, "ValueUnrecognized"),
                    Some(DefaultOf(kind)), 0)
    ELSE IF ns # << >> /\ ns[1].kind = "DefinitionList"
    THEN list_parsed(parse_list_by_kind(ctx, ns[1].items, kind))
    ELSE ListResult(add_warning(ctx, template_node, "SectionEmpty"),
                    Some(DefaultOf(kind)), 1)

\* The parameters of the marker are looked at before the slot.
parse_list_generic_parameters_first(ctx, template_node, parameters, ns, output, kind) ==
    IF parameters # << >>
    THEN ListResult(add_warning(ctx, template_node, "ValueUnrecognized"),
                    Some(DefaultOf(kind)), 0)
    ELSE IF output.some
    THEN ListResult(add_warning(ctx, template_node, "Duplicate"), Some(DefaultOf(kind)), 0)
    ELSE IF ns # << >> /\ ns[1].kind = "DefinitionList"
    THEN list_parsed(parse_list_by_kind(ctx, ns[1].items, kind))
    ELSE ListResult(add_warning(ctx, template_node, "SectionEmpty"),
                    Some(DefaultOf(kind)), 0)

\* `ns` is the slice after the marker.
parse_list_generic(ctx, template_node, parameters, ns, output, kind) ==
    IF output.some
    THEN ListResult(add_warning(ctx, template_node, "Duplicate"), Some(DefaultOf(kind)), 0)
    ELSE IF parameters # << >>
    THEN ListResult(add_warning(ctx, template_node, "ValueUnrecognized"),
                    Some(DefaultOf(kind)), 0)
    ELSE IF ns # << >> /\ ns[1].kind = "DefinitionList"
    THEN list_parsed(parse_list_by_kind(ctx, ns[1].items, kind))
    ELSE ListResult(add_warning(ctx, template_node, "SectionEmpty"),
                    Some(DefaultOf(kind)), 0)

\* list::parse_list, examples::parse_examples and
\* pronunciation::parse_pronunciation differ in the closure only.
parse_list_items_generic(ctx, template_node, parameters, ns, output, kind) ==
    parse_list_generic(ctx, template_node, parameters, ns, output, kind)

----------------------------------------------------------------------------
(* The call stack of the dispatcher                                        *)

NoFrame == [live |-> FALSE]

\* nodes.get(index) of a slice that starts `base` nodes into the page
HasNode(base, index) == base + index < Len(nodes)
NodeAt(base, index) == nodes[base + index + 1]
\* &nodes[index..]
SliceFrom(base, index) == SubSeq(nodes, base + index + 1, Len(nodes))

\* One evaluation of a dispatcher loop's head (an iteration, or the exit at
\* the end of the slice): the loop, the page position of the node it examines,
\* the loop's cursor before and after it, whether it leaves the loop (break,
\* return, end), the rule taken, and, as they are before it, the length of
\* the log, the active language and the numbers of entries pushed so far (in
\* the running language section, and in all).
Iteration(loop, base, before, after, leaves, rule) ==
    [loop |-> loop, at |-> base + before, before |-> before, after |-> after,
     leaves |-> leaves, rule |-> rule, warnings |-> Len(context.warnings),
     language |-> context.language,
     pos_entries |-> IF language_frame.live THEN Len(language_frame.pos_entries) ELSE 0,
     language_entries |-> Len(language_entries)]

\* How a loop is left without a return inside it: by the break at a heading
\* ("break") or because the slice holds no node at the cursor ("end").
LeaveRule(frame) == IF HasNode(frame.base, frame.node_index) THEN "break" ELSE "end"

\* Where control goes unless the step panicked.
Goto(ctx, label) == IF ctx.panicked THEN "panic" ELSE label

----------------------------------------------------------------------------
(* lib.rs: parse                                                           *)

\* The shape test of a level-2 heading, lib.rs:637-646: the parameter of its
\* Sprache template when the heading is `<title> ({{Sprache|..}})`.
language_heading_parameter(heading_child_nodes) ==
    IF /\ Len(heading_child_nodes) = 3
       /\ heading_child_nodes[1].kind = "Text"
       /\ heading_child_nodes[2].kind = "Template"
       /\ heading_child_nodes[3].kind = "Text"
       /\ heading_child_nodes[3].value = ")"
       /\ heading_child_nodes[1].value = title \o " ("
       /\ text_equals(heading_child_nodes[2].name, "Sprache")
       /\ AllUnnamed(heading_child_nodes[2].parameters, 1)
       /\ parse_text(heading_child_nodes[2].parameters[1].value).some
    THEN Some(heading_child_nodes[2].parameters[1])
    ELSE None

\* What one iteration of parse's loop decides: the rule taken, the context
\* left, and the language of the section to enter, if any.
ParseStepResult(rule, ctx, language) ==
    [rule |-> rule, context |-> ctx, language |-> language]

\* A recognized language heading that enters its section and leaves the active
\* language as it was.
parse_heading_language_unset(ctx, parameter, language) ==
    IF ~language.some
    THEN ParseStepResult("heading2", add_warning(ctx, parameter, "ValueUnrecognized"), None)
    ELSE ParseStepResult("language", ctx, language)

\* match Language::from_name(&language), lib.rs:648-665
parse_heading_language(ctx, parameter, language) ==
    IF ~language.some
    THEN ParseStepResult("heading2", add_warning(ctx, parameter, "ValueUnrecognized"), None)
    ELSE ParseStepResult("language", [ctx EXCEPT !.language = language.v], language)

\* A level-2 heading of another shape is reported like any other node.
parse_heading_unrecognized(ctx, node, parameter) ==
    IF ~parameter.some
    THEN ParseStepResult("heading2", add_warning(ctx, node, "Unrecognized"), None)
    ELSE parse_heading_language(ctx, parameter.v, language_of_parameter(parameter.v))

\* The level-2 arm, `parameter` being the heading's language parameter, if any.
parse_heading(ctx, node, parameter) ==
    IF ~parameter.some
    THEN ParseStepResult("heading2", add_warning(ctx, node, "ValueUnrecognized"), None)
    ELSE parse_heading_language(ctx, parameter.v, language_of_parameter(parameter.v))

parse_node(ctx, node) ==
    IF node.kind = "Heading" /\ node.level < 2
    THEN ParseStepResult("break", add_warning(ctx, node, "Unrecognized"), None)
    ELSE IF node.kind = "Heading" /\ node.level = 2
    THEN parse_heading(ctx, node, language_heading_parameter(node.nodes))
    ELSE ParseStepResult("other", add_warning(ctx, node, "Unrecognized"), None)

\* let mut node_index = 0; let mut pos_entries = vec![];
NewLanguageFrame(heading_node, base) ==
    [live |-> TRUE, heading_node |-> heading_node, base |-> base, node_index |-> 0,
     pos_entries |-> << >>]

\* The cursor of parse after a step.
parse_after(step) == IF step.rule = "break" THEN node_index ELSE node_index + 1

\* The effect of one iteration of parse's loop on `node`.
ParseApply(node, step) ==
    /\ context' = step.context
    /\ node_index' = parse_after(step)
    /\ language_frame' = IF step.rule = "language"
                         THEN NewLanguageFrame(node, parse_after(step))
                         ELSE language_frame
    /\ pc' = Goto(step.context,
                  CASE step.rule = "break" -> "done"
                    [] step.rule = "language" -> "language"
                    [] OTHER -> "parse")
    /\ history' = Append(history,
                         Iteration("parse", 0, node_index, parse_after(step),
                                   step.rule = "break", step.rule))

\* One iteration of the loop of parse.
ParseStep ==
    /\ pc = "parse"
    /\ HasNode(0, node_index)
    /\ ParseApply(NodeAt(0, node_index), parse_node(context, NodeAt(0, node_index)))
    /\ UNCHANGED <<title, nodes, debug_assertions, language_entries, pos_frame>>

\* The loop of parse ends at the end of the nodes: Output is built.
ParseReturn ==
    /\ pc = "parse"
    /\ ~HasNode(0, node_index)
    /\ pc' = "done"
    /\ history' = Append(history,
                         Iteration("parse", 0, node_index, node_index, TRUE, "end"))
    /\ UNCHANGED <<title, nodes, debug_assertions, context, language_entries, node_index,
                   language_frame, pos_frame>>

\* The value parse returns.
Output == [language_entries |-> language_entries, warnings |-> context.warnings]

----------------------------------------------------------------------------
(* language.rs: parse_language                                             *)

\* What one iteration of parse_language's loop decides: the rule taken, the
\* context left, and the part of speech and details of the body to enter, if any.
LanguageStepResult(rule, ctx, pos, details) ==
    [rule |-> rule, context |-> ctx, pos |-> pos, details |-> details]

\* let details = parse_details(..); the body is entered
language_pos_details(pos, details) ==
    LanguageStepResult("pos", details.context, pos, details.value)

\* if let Some(pos) = parse_pos_template(..), language.rs:39-53
language_pos(node, pos) ==
    IF pos.value.some
    THEN language_pos_details(pos.value, parse_details(pos.context, Tail(node.nodes)))
    ELSE LanguageStepResult("heading3", pos.context, None, << >>)

\* The level-3 arm, language.rs:27-60.
parse_language_heading(ctx, node) ==
    IF node.nodes = << >>
    THEN LanguageStepResult("heading3", add_warning(ctx, node, "Empty"), None, << >>)
    ELSE IF node.nodes[1].kind = "Template" /\ text_equals(node.nodes[1].name, "Wortart")
    THEN language_pos(node,
                      parse_pos_template(ctx, node.nodes[1], node.nodes[1].parameters))
    ELSE LanguageStepResult("heading3", add_warning(ctx, node, "ValueUnrecognized"),
                            None, << >>)

\* `node` is not a heading above level 3.
parse_language_node(ctx, node) ==
    IF node.kind = "Heading" /\ node.level = 3
    THEN parse_language_heading(ctx, node)
    ELSE IF node.kind = "Template" /\ text_equals(node.name, "erweitern")
    THEN LanguageStepResult("erweitern", add_warning(ctx, node, "Supplementary"),
                            None, << >>)
    ELSE LanguageStepResult("other", add_warning(ctx, node, "Unrecognized"), None, << >>)

\* The sections parse_pos_section fills through the generic extractor:
\* the marker's name, the slot (the PosEntry field) and the closure's kind.
SectionNames ==
    {"Abkürzungen", "Aussprache", "Bedeutungen", "Beispiele",
     "Charakteristische Wortkombinationen", "Gegenwörter", "Herkunft", "Koseformen",
     "Kurzformen", "Männliche Wortformen", "Nebenformen",
     "Nicht mehr gültige Schreibweisen", "Oberbegriffe", "Redewendungen",
     "Sinnverwandte Wörter", "Sprichwörter", "Symbole", "Synonyme", "Unterbegriffe",
     "Verkleinerungsformen", "Weibliche Wortformen", "Wortbildungen", "Worttrennung",
     "Ähnlichkeiten"}

SectionSlot(name) ==
    CASE name = "Abkürzungen" -> "abbreviations"
      [] name = "Aussprache" -> "pronunciation"
      [] name = "Bedeutungen" -> "definitions"
      [] name = "Beispiele" -> "examples"
      [] name = "Charakteristische Wortkombinationen" -> "typical_word_combinations"
      [] name = "Gegenwörter" -> "antonyms"
      [] name = "Herkunft" -> "etymology"
      [] name = "Koseformen" -> "affectionate_forms"
      [] name = "Kurzformen" -> "short_forms"
      [] name = "Männliche Wortformen" -> "masculine_forms"
      [] name = "Nebenformen" -> "variants"
      [] name = "Nicht mehr gültige Schreibweisen" -> "no_longer_valid_spellings"
      [] name = "Oberbegriffe" -> "hypernyms"
      [] name = "Redewendungen" -> "idioms"
      [] name = "Sinnverwandte Wörter" -> "related_words"
      [] name = "Sprichwörter" -> "proverbs"
      [] name = "Symbole" -> "symbols"
      [] name = "Synonyme" -> "synonyms"
      [] name = "Unterbegriffe" -> "hyponyms"
      [] name = "Verkleinerungsformen" -> "diminutives"
      [] name = "Weibliche Wortformen" -> "feminine_forms"
      [] name = "Wortbildungen" -> "compound_words"
      [] name = "Worttrennung" -> "hyphenation"
      [] name = "Ähnlichkeiten" -> "similar_words"

SectionKind(name) ==
    CASE name = "Aussprache" -> "pronunciation"
      [] name = "Beispiele" -> "examples"
      [] OTHER -> "list"

Slots == {SectionSlot(name) : name \in SectionNames}

\* The locals of parse_pos_section, pos_section.rs:12-38.
NewPosFrame(base, pos, details) ==
    [live |-> TRUE, base |-> base, node_index |-> 0, pos |-> pos, details |-> details,
     slots |-> [slot \in Slots |-> None], overview |-> None, translations |-> FALSE]

\* The effect of one iteration of parse_language's loop that stays in it.
LanguageApply(step) ==
    /\ context' = step.context
    /\ language_frame' = [language_frame EXCEPT !.node_index = @ + 1]
    /\ pos_frame' = IF step.rule = "pos"
                    THEN NewPosFrame(language_frame.base + language_frame.node_index + 1,
                                     step.pos.v, step.details)
                    ELSE pos_frame
    /\ pc' = Goto(step.context, IF step.rule = "pos" THEN "pos" ELSE "language")
    /\ history' = Append(history,
                         Iteration("language", language_frame.base,
                                   language_frame.node_index,
                                   language_frame.node_index + 1, FALSE, step.rule))

\* while let Some(node) = nodes.get(node_index), and no break at this node
LanguageStays ==
    /\ HasNode(language_frame.base, language_frame.node_index)
    /\ ~(/\ NodeAt(language_frame.base, language_frame.node_index).kind = "Heading"
         /\ NodeAt(language_frame.base, language_frame.node_index).level < 3)

\* One iteration of the loop of parse_language that stays in the loop.
LanguageStep ==
    /\ pc = "language"
    /\ LanguageStays
    /\ LanguageApply(
            parse_language_node(
                context, NodeAt(language_frame.base, language_frame.node_index)))
    /\ UNCHANGED <<title, nodes, debug_assertions, language_entries, node_index>>

\* The end of parse_language, language.rs:72-79: the context it leaves.
language_end(ctx, frame) ==
    IF frame.pos_entries = << >>
    THEN add_warning(ctx, frame.heading_node, "SectionEmpty")
    ELSE IF ctx.language = NoLanguage
    THEN [ctx EXCEPT !.panicked = TRUE]
    ELSE ctx

\* A LanguageEntry is pushed whatever the section gave.
language_end_entries_always(ctx, frame, entries) ==
    Append(entries, [language |-> ctx.language, pos_entries |-> frame.pos_entries])

\* ... and the entries it leaves.
language_end_entries(ctx, frame, entries) ==
    IF frame.pos_entries = << >> THEN entries
    ELSE Append(entries, [language |-> ctx.language, pos_entries |-> frame.pos_entries])

\* The active language stays as the section set it.
language_kept(ctx) == ctx

\* context.language = None, lib.rs:662
language_cleared(ctx) == [ctx EXCEPT !.language = NoLanguage]

\* The effect of the return of parse_language, `ctx` being the context it leaves.
LanguageEnd(ctx) ==
    /\ language_entries' = language_end_entries(context, language_frame, language_entries)
    /\ node_index' = node_index + language_frame.node_index
    /\ context' = language_cleared(ctx)
    /\ language_frame' = NoFrame
    /\ pc' = Goto(ctx, "parse")
    /\ history' = Append(history,
                         Iteration("language", language_frame.base,
                                   language_frame.node_index, language_frame.node_index,
                                   TRUE, LeaveRule(language_frame)))

\* parse_language leaves its loop (the end of the slice, or the break at a
\* heading above level 3), ends, and parse takes up after the call.
LanguageReturn ==
    /\ pc = "language"
    /\ ~LanguageStays
    /\ LanguageEnd(language_end(context, language_frame))
    /\ UNCHANGED <<title, nodes, debug_assertions, pos_frame>>

----------------------------------------------------------------------------
(* pos_section.rs: parse_pos_section                                       *)

SupplementaryNames ==
    {"Abschnitte fehlen", "Quellen", "Referenzen prüfen", "Ähnlichkeiten 1",
     "Ähnlichkeiten 2"}

\* if let [Template { name, .. }] = heading_child_nodes, text_equals(name, "Übersetzungen")
IsTranslationsHeading(node) ==
    /\ node.kind = "Heading"
    /\ node.level = 4
    /\ Len(node.nodes) = 1
    /\ node.nodes[1].kind = "Template"
    /\ text_equals(node.nodes[1].name, "Übersetzungen")

\* A step of the body loop: the frame and context it leaves, the rule taken and
\* whether parse_pos_section returns in it.
PosStepResult(frame, ctx, rule, returns) ==
    [frame |-> frame, context |-> ctx, rule |-> rule, returns |-> returns]

\* The cursor is left where it is.
Stalled(frame) == frame

\* node_index += 1
Advanced(frame) == [frame EXCEPT !.node_index = @ + 1]

\* The first translations heading of a body, pos_section.rs:60-79.
parse_translations(frame, ctx, node, rest) ==
    IF node.nodes[1].parameters # << >>
    THEN PosStepResult(frame, add_warning(ctx, node, "ValueUnrecognized"),
                       "translations", FALSE)
    ELSE IF rest # << >> /\ rest[1].kind = "Template"
            /\ text_equals(rest[1].name, "Ü-Tabelle")
    THEN PosStepResult(Advanced(frame), add_warning(ctx, rest[1], "Supplementary"),
                       "translations", FALSE)
    ELSE PosStepResult(frame, add_warning(ctx, node, "SectionEmpty"),
                       "translations", FALSE)

\* A second translations heading is reported and the loop goes on.
parse_pos_heading_continue(frame, ctx, node, rest) ==
    IF ~IsTranslationsHeading(node)
    THEN PosStepResult(Advanced(frame), add_warning(ctx, node, "Unrecognized"),
                       "other", FALSE)
    ELSE IF frame.translations
    THEN PosStepResult(Advanced(frame), add_warning(ctx, node, "Duplicate"),
                       "translations_duplicate", FALSE)
    ELSE parse_translations([Advanced(frame) EXCEPT !.translations = TRUE], ctx, node,
                            rest)

\* The Node::Heading arm (level 4 or deeper), pos_section.rs:49-83; `rest` is
\* the slice after the heading.
parse_pos_heading(frame, ctx, node, rest) ==
    IF ~IsTranslationsHeading(node)
    THEN PosStepResult(Advanced(frame), add_warning(ctx, node, "Unrecognized"),
                       "other", FALSE)
    ELSE IF frame.translations
    THEN PosStepResult(Advanced(frame), add_warning(ctx, node, "Duplicate"),
                       "translations_duplicate", TRUE)
    ELSE parse_translations([Advanced(frame) EXCEPT !.translations = TRUE], ctx, node,
                            rest)

\* node_index += $function(..): the slot and the cursor after the call.
section_parsed(frame, slot, parsed) ==
    PosStepResult([frame EXCEPT !.node_index = @ + parsed.value,
                                !.slots[slot] = parsed.output],
                  parsed.context, "section", FALSE)

\* The section! macro: the slot's parser is called on the slice after the marker.
parse_section(frame, ctx, node, name, rest) ==
    section_parsed(Advanced(frame), SectionSlot(name),
                   parse_list_items_generic(
                        ctx, node, node.parameters, rest, frame.slots[SectionSlot(name)],
                        SectionKind(name)))

\* The "Referenzen" arm, pos_section.rs:125-134.
parse_references(frame, ctx, node, rest) ==
    IF rest # << >> /\ rest[1].kind = "DefinitionList"
    THEN PosStepResult(Advanced(Advanced(frame)),
                       add_warning(ctx, rest[1], "Supplementary"), "references", FALSE)
    ELSE PosStepResult(Advanced(frame), add_warning(ctx, node, "SectionEmpty"),
                       "references", FALSE)

\* The cursor after a recognized overview marker, pos_section.rs:99 and 152.
overview_advanced(frame) == Advanced(Advanced(frame))

\* The `_` arm, pos_section.rs:145-154, `overview` being what parse_overview left.
parse_pos_overview(frame, node, overview) ==
    IF overview.value
    THEN PosStepResult([overview_advanced(frame) EXCEPT !.overview = overview.output],
                       overview.context, "overview", FALSE)
    ELSE PosStepResult([Advanced(frame) EXCEPT !.overview = overview.output],
                       add_warning(overview.context, node, "Unrecognized"),
                       "other", FALSE)

\* The Node::Template arm, pos_section.rs:84-157, the name being `name`.
parse_pos_template_node(frame, ctx, node, rest, name) ==
    IF ~name.some
    THEN PosStepResult(Advanced(frame), add_warning(ctx, node, "Unrecognized"),
                       "other", FALSE)
    ELSE IF name.v \in SectionNames
    THEN parse_section(frame, ctx, node, name.v, rest)
    ELSE IF name.v \in SupplementaryNames
    THEN PosStepResult(Advanced(frame), add_warning(ctx, node, "Supplementary"),
                       "supplementary", FALSE)
    ELSE IF name.v = "Referenzen"
    THEN parse_references(frame, ctx, node, rest)
    ELSE parse_pos_overview(
            frame, node,
            parse_overview(ctx, node, name.v, node.parameters, frame.overview))

\* What one iteration of parse_pos_section's loop does for `node` (not a
\* heading above level 4).
parse_pos_node(frame, ctx, node, rest) ==
    CASE node.kind = "Heading" -> parse_pos_heading(frame, ctx, node, rest)
      [] node.kind = "Template" ->
            parse_pos_template_node(frame, ctx, node, rest, parse_text(node.name))
      [] OTHER ->
            PosStepResult(Advanced(frame), add_warning(ctx, node, "Unrecognized"),
                          "other", FALSE)

\* The fields of a PosEntry that the pronunciation section fills.
pronunciation_fields(pronunciation) ==
    [audio |-> pronunciation.audio, ipa |-> pronunciation.ipa,
     rhymes |-> pronunciation.rhymes]

\* The PosEntry built at pos_section.rs:162-193.
PosEntry(frame) ==
    [field \in (Slots \ {"pronunciation"}) |-> unwrap_or(frame.slots[field], << >>)]
    @@ pronunciation_fields(unwrap_or(frame.slots["pronunciation"], DefaultPronunciation))
    @@ [details |-> frame.details,
        overview |-> unwrap_or(frame.overview, None),
        pos |-> frame.pos]

\* The return at a second translations heading takes in the rest of the page.
rest_consumed_count(frame) == Len(nodes) - frame.base

\* return 0, pos_section.rs:58
duplicate_translations_count(frame) == 0

\* The effect of one iteration of the loop of parse_pos_section; when it
\* returns, parse_language takes up after the call.
PosApply(step) ==
    /\ context' = step.context
    /\ pos_frame' = IF step.returns THEN NoFrame ELSE step.frame
    /\ language_frame' =
            IF step.returns
            THEN [language_frame EXCEPT
                     !.node_index = @ + duplicate_translations_count(step.frame)]
            ELSE language_frame
    /\ pc' = Goto(step.context, IF step.returns THEN "language" ELSE "pos")
    /\ history' = Append(history,
                         Iteration("pos", pos_frame.base, pos_frame.node_index,
                                   step.frame.node_index, step.returns, step.rule))

\* while let Some(node) = nodes.get(node_index), and no break at this node
PosStays ==
    /\ HasNode(pos_frame.base, pos_frame.node_index)
    /\ ~(/\ NodeAt(pos_frame.base, pos_frame.node_index).kind = "Heading"
         /\ NodeAt(pos_frame.base, pos_frame.node_index).level < 4)

\* One iteration of the loop of parse_pos_section; at a second translations
\* heading it returns 0.
PosStep ==
    /\ pc = "pos"
    /\ PosStays
    /\ PosApply(parse_pos_node(pos_frame, context,
                               NodeAt(pos_frame.base, pos_frame.node_index),
                               SliceFrom(pos_frame.base, pos_frame.node_index + 1)))
    /\ UNCHANGED <<title, nodes, debug_assertions, language_entries, node_index>>

\* parse_pos_section leaves its loop (the end of the slice, or the break at a
\* heading above level 4), pushes its PosEntry and returns its cursor, and
\* parse_language takes up after the call.
PosReturn ==
    /\ pc = "pos"
    /\ ~PosStays
    /\ language_frame' =
            [language_frame EXCEPT !.node_index = @ + pos_frame.node_index,
                                   !.pos_entries = Append(@, PosEntry(pos_frame))]
    /\ history' = Append(history,
                         Iteration("pos", pos_frame.base, pos_frame.node_index,
                                   pos_frame.node_index, TRUE, LeaveRule(pos_frame)))
    /\ pos_frame' = NoFrame
    /\ pc' = "language"
    /\ UNCHANGED <<title, nodes, debug_assertions, context, language_entries, node_index>>

----------------------------------------------------------------------------
(* The explored inputs: pages as parse_wiki_text delivers them              *)

PageTitle == "Wort"

Parameters1(text) == <<Unnamed(<<Text(text)>>)>>

\* `count` unnamed parameters holding literal text
ParametersOf(count) == [i \in 1..count |-> Unnamed(<<Text("x")>>)]

\* ==Wort ({{Sprache|<language>}})==
LanguageHeading(language) ==
    Heading(2, <<Text(PageTitle \o " ("), Template("Sprache", Parameters1(language)),
                 Text(")")>>)

Wortart(pos, language) ==
    Template("Wortart", <<Unnamed(<<Text(pos)>>), Unnamed(<<Text(language)>>)>>)

\* ==={{Wortart|<pos>|<language>}}<details>===
PosHeading(pos, language, details) == Heading(3, <<Wortart(pos, language)>> \o details)

H1 == Heading(1, <<Text("Titel")>>)
H2De == LanguageHeading("Deutsch")
H2En == LanguageHeading("Englisch")
H2Unknown == LanguageHeading("Klingonisch")
H2Shape == Heading(2, <<Text("Anders")>>)
H2OtherTitle ==
    Heading(2, <<Text("Welt ("), Template("Sprache", Parameters1("Deutsch")), Text(")")>>)
H3Noun == PosHeading("Substantiv", "Deutsch", << >>)
H3Verb == PosHeading("Verb", "Deutsch", << >>)
H3NounEn == PosHeading("Substantiv", "Englisch", << >>)
H3WrongPosEn == PosHeading("Unsinn", "Englisch", << >>)
H3UnknownLanguage == PosHeading("Substantiv", "Klingonisch", << >>)
H3ThreeParameters == Heading(3, <<Template("Wortart", ParametersOf(3))>>)
H3Empty == Heading(3, << >>)
H3Text == Heading(3, <<Text("Substantiv")>>)
H4Translations == Heading(4, <<Template("Übersetzungen", << >>)>>)
H4TranslationsParameter == Heading(4, <<Template("Übersetzungen", Parameters1("x"))>>)
H4Other == Heading(4, <<Text("Anmerkung")>>)
H5 == Heading(5, <<Template("Übersetzungen", << >>)>>)
TranslationTable == Template("Ü-Tabelle", << >>)
Marker(name) == Template(name, << >>)
MarkerParameter(name) == Template(name, Parameters1("x"))
OverviewDe == Template("Deutsch Substantiv Übersicht", << >>)
OverviewEn == Template("Englisch Substantiv Übersicht", << >>)
PlainText == Text("Text")
\* A definition list of one details item.
ListOf(item) == DefinitionList(<<Details(item)>>)
\* A definition list with one details item holding literal text.
PlainList == ListOf(<<Text("Beleg")>>)

\* All sequences over `alphabet` of length at most `n`.
RECURSIVE SeqsUpTo(_, _)
SeqsUpTo(alphabet, n) ==
    IF n = 0 THEN {<< >>}
    ELSE LET shorter == SeqsUpTo(alphabet, n - 1)
         IN  shorter \cup {Append(s, a) : s \in shorter, a \in alphabet}

Singles(alphabet) == {<<a>> : a \in alphabet}

TopAlphabet == {H1, H2De, H2En, H2Shape, H3Noun, H3NounEn, H3WrongPosEn, PlainText}

\* Pages that exercise the top-level loop and the language-level loop.
TopPages == SeqsUpTo(TopAlphabet, MaxTop)

BodyAlphabet ==
    {Marker("Beispiele"), Marker("Herkunft"), PlainList, H4Translations, TranslationTable,
     OverviewDe, H3Verb, H2En, PlainText}

\* Pages that exercise the body of a part-of-speech section.
BodyPages == {<<H2De, H3Noun>> \o body : body \in SeqsUpTo(BodyAlphabet, MaxBody)}

\* Cross-reference markers, well-formed and not.
TermOk == Template("Ü", <<Unnamed(<<Text("en")>>), Unnamed(<<Text("word")>>)>>)
TermNoLanguage == Template("Ü", <<Unnamed(<< >>), Unnamed(<<Text("word")>>)>>)
TermNoTerm == Template("Ü", <<Unnamed(<<Text("en")>>), Unnamed(<<Italic>>)>>)
TermOneParameter == Template("Ü", Parameters1("en"))
TransliterationOk == Template("Üt", ParametersOf(3))
TransliterationEmpty ==
    Template("Üt", <<Unnamed(<<Text("ru")>>), Unnamed(<<Text("slowo")>>), Unnamed(<< >>)>>)
LinkOk == Link("Ziel", <<Text("Ziel")>>)
LinkItalic == Link("Ziel", <<Italic, Text("Ziel"), Italic>>)
UnknownTemplate == Template("Unbekannt", Parameters1("x"))
ItalicName == TemplateN(<<Italic>>, << >>)
NestedOk == UnorderedList(<<ListItem(<<Text("Punkt")>>)>>)
NestedEmptyItem == UnorderedList(<<ListItem(<< >>)>>)
NestedMixed == UnorderedList(<<ListItem(<< >>), ListItem(<<TermNoLanguage>>)>>)
NestedTwice == UnorderedList(<<ListItem(<<Text("a"), NestedOk>>)>>)

\* What a details item of a flat list section may hold.
ListInline ==
    {Text("Wort"), Italic, Bold, Comment, CharacterEntity(Nbsp), CharacterEntity("amp"),
     StartTag("sup"), EndTag("sup"), StartTag("small"), Tag("ref"), Tag("br"),
     LinkOk, LinkItalic, TermOk, TermNoLanguage, TermNoTerm, TermOneParameter,
     TransliterationOk, TransliterationEmpty, Template("Wortbildung", Parameters1("Verb")),
     Template("Wortbildung", Parameters1("x")), Marker("QS Herkunft"), UnknownTemplate,
     ItalicName, NestedOk, NestedEmptyItem, NestedMixed, NestedTwice, ParagraphBreak,
     PlainList, Marker("Pl."), MarkerParameter("Pl."), Marker("en"), Marker("lat.")}

ListInlineCore ==
    {Text("Wort"), Italic, LinkItalic, TermOk, TermNoLanguage, MarkerParameter("Pl."),
     UnknownTemplate, NestedOk, NestedMixed, Comment}

ListItems == Singles(ListInline) \cup SeqsUpTo(ListInlineCore, MaxInline)

ListPages == {<<H2De, H3Noun, Marker("Herkunft"), ListOf(item)>> : item \in ListItems}

TranslationOk == ListOf(<<Text("Satz"), Italic>>)
TranslationUnknown == ListOf(<<Bold>>)
TranslationEmpty == ListOf(<< >>)
TranslationTwo == DefinitionList(<<Details(<<Text("a")>>), Details(<<Text("b")>>)>>)

\* What a details item of the examples section may hold.
ExampleInline ==
    {Text("Satz"), Italic, Tag("ref"), Tag("br"), Bold, UnknownTemplate, LinkOk,
     TranslationOk, TranslationUnknown, TranslationEmpty, TranslationTwo}

ExampleInlineCore == {Text("Satz"), Italic, UnknownTemplate, TranslationOk, TranslationTwo}

ExampleItems == Singles(ExampleInline) \cup SeqsUpTo(ExampleInlineCore, MaxInline + 1)

ExamplePages == {<<H2De, H3Noun, Marker("Beispiele"), ListOf(item)>> : item \in ExampleItems}

AudioOk == Template("Audio", Parameters1("De-Wort.ogg"))
AudioEmpty == Template("Audio", <<Unnamed(<< >>)>>)
AudioLanguage ==
    Template("Audio", <<Unnamed(<<Text("De-Wort.ogg")>>), Unnamed(<<Text("Wort")>>),
                        Named(<<Text("spr")>>, <<Text("at")>>)>>)
AudioLanguageTwice ==
    Template("Audio", <<Unnamed(<<Text("De-Wort.ogg")>>),
                        Named(<<Text("spr")>>, <<Text("at")>>),
                        Named(<<Text("spr")>>, <<Text("ch")>>)>>)
AudioThree == Template("Audio", ParametersOf(3))
AudioNoFile == Template("Audio", <<Named(<<Text("spr")>>, <<Text("at")>>)>>)
AudioOtherName ==
    Template("Audio", <<Unnamed(<<Text("De-Wort.ogg")>>),
                        Named(<<Text("art")>>, <<Text("x")>>)>>)
IpaOk == Template("Lautschrift", Parameters1("vort"))
IpaEmpty == Template("Lautschrift", <<Unnamed(<< >>)>>)
RhymeOf(rhyme, language) ==
    Template("Reim", <<Unnamed(rhyme), Unnamed(<<Text(language)>>)>>)

\* What follows the first marker in a details item of the pronunciation section.
AudioInline ==
    {Text(" Laut"), Text(" "), Italic, UnknownTemplate, ItalicName, AudioOk, AudioEmpty,
     AudioLanguage, AudioLanguageTwice, AudioThree, AudioNoFile, AudioOtherName, IpaOk,
     IpaEmpty, Template("Lautschrift", << >>), RhymeOf(<<Text("ort")>>, "Deutsch"),
     RhymeOf(<<Text("ort")>>, "Englisch"), RhymeOf(<<Text("ort")>>, "Klingonisch"),
     RhymeOf(<< >>, "Deutsch"), Template("Reim", Parameters1("ort")), Marker("Gen."),
     MarkerParameter("Gen."), Marker("Komp.")}

AudioInlineCore ==
    {Text(" Laut"), AudioOk, AudioLanguageTwice, IpaOk,
     RhymeOf(<<Text("ort")>>, "Englisch"), MarkerParameter("Gen.")}

AudioItems == Singles(AudioInline) \cup SeqsUpTo(AudioInlineCore, MaxInline)

\* The first marker of a details item of the pronunciation section.
AudioFirst ==
    {Marker("Hörbeispiele"), Marker("IPA"), Marker("Reime"), MarkerParameter("IPA"),
     UnknownTemplate, PlainText}

AudioPages ==
    {<<H2De, H3Noun, Marker("Aussprache"), ListOf(<<first>> \o item)>> :
        first \in AudioFirst, item \in AudioItems}

\* What may follow the part-of-speech marker in a level-3 heading.
DetailsInline ==
    {Text(", "), Text(" , Wort"), Text(" "), Italic, Bold, LinkOk, LinkItalic, Marker("f"),
     MarkerParameter("m"), Marker("fm"), MarkerParameter("mn."), Marker("Pl."),
     Wortart("Verb", "Deutsch"), Wortart("Verb", "Englisch"), Wortart("Unsinn", "Deutsch"),
     UnknownTemplate, ItalicName}

DetailsInlineCore ==
    {Text(", "), Italic, LinkItalic, MarkerParameter("m"), Marker("fm"),
     Wortart("Verb", "Englisch")}

DetailsItems == Singles(DetailsInline) \cup SeqsUpTo(DetailsInlineCore, MaxInline)

DetailsPages ==
    {<<H2De, PosHeading("Substantiv", "Deutsch", details)>> : details \in DetailsItems}

\* A simple marker with up to MaxParameters parameters, in each of the three
\* places whose table holds it.
SimpleMarkerPages ==
    {<<H2De, H3Noun, Marker("Herkunft"), ListOf(<<Template(name, ParametersOf(count))>>)>> :
        name \in SimpleNames \cup LanguageAdjectiveNames \cup Languages,
        count \in 0..MaxParameters}
    \cup
    {<<H2De, H3Noun, Marker("Aussprache"),
       ListOf(<<Marker("Hörbeispiele"), Template(name, ParametersOf(count))>>)>> :
        name \in AudioSimpleNames, count \in 0..MaxParameters}
    \cup
    {<<H2De, PosHeading("Substantiv", "Deutsch",
                        <<Template(name, ParametersOf(count))>>)>> :
        name \in GenderNames, count \in 0..MaxParameters}

\* The parameters an overview marker may carry.
OverviewParameters ==
    {Unnamed(<<Text("a")>>), Unnamed(<<Italic, Bold>>),
     Named(<<Text("Genus")>>, <<Text("n")>>), Named(<<Text("Genus")>>, <<Text("m")>>),
     Named(<<Italic>>, <<Text("x")>>), Named(<<Text("Bild")>>, <<LinkOk>>)}

OverviewPages ==
    {<<H2De, H3Noun, Template("Deutsch Substantiv Übersicht", parameters)>> :
        parameters \in SeqsUpTo(OverviewParameters, MaxParameters)}

\* The page of the crate's documentation, for some languages, parts of speech
\* and literal texts.
ExamplePage(language, pos, literal) ==
    <<LanguageHeading(language), PosHeading(pos, language, << >>), Marker("Beispiele"),
      ListOf(<<Text(literal)>>)>>

DocumentedPages ==
    {ExamplePage(language, pos, literal) :
        language \in {"Deutsch", "Englisch", "Französisch"},
        pos \in {"Substantiv", "Verb", "Redewendung"},
        literal \in {"Das Haus sei geeignet.", "x"}}

\* Further pages, one for each remaining arm of the dispatchers.
ScenarioPages ==
    {<<H2De, H3Noun, H4Translations, H4Translations, H3Verb, H2En, H3NounEn>>,
     <<H2De, H3Noun, H4Translations, H4Translations, H1, H2En, H3NounEn>>,
     <<H2De, H3Noun, Marker("Herkunft"), PlainList, H4Translations, TranslationTable,
       H4Translations, H3Verb, Marker("Herkunft"), PlainList>>,
     <<H2De, H3Noun, OverviewDe, H3Verb, H4Translations, H4Translations>>,
     <<H2De, H3Noun, H4Translations, OverviewDe, H3Verb, H4Translations, OverviewDe,
       H3Noun>>,
     <<H2De, H3Noun, Marker("Herkunft"), PlainList, Marker("Herkunft"), PlainList,
       Marker("Herkunft"), PlainList>>,
     <<H2De, H3Noun, Marker("Beispiele"), PlainList, Marker("Aussprache"),
       ListOf(<<Marker("IPA"), Text(" "), IpaOk>>), Marker("Beispiele"),
       Marker("Aussprache")>>,
     <<H2De, H3Noun, OverviewDe, OverviewDe, OverviewDe>>,
     <<H2De, H3Noun, OverviewDe, PlainText, OverviewDe, PlainText>>,
     <<H2De, H3Noun, OverviewDe, H2En, H3NounEn, OverviewEn, H1, H2De>>,
     <<H2De, H3Noun, OverviewDe, H1, H4Translations, H4Translations>>,
     <<H2De, H3Noun,
       Template("Deutsch Substantiv Übersicht",
                <<Named(<<Text("Genus")>>, <<Text("n")>>),
                  Named(<<Text("Genus")>>, <<Text("m")>>),
                  Named(<<Text("Genus")>>, <<LinkOk>>)>>)>>,
     <<H2De, H3Noun,
       Template("Deutsch Substantiv Übersicht",
                <<Named(<<Text("Genus")>>, <<LinkOk>>),
                  Named(<<Text("Genus")>>, <<Text("m")>>)>>)>>,
     <<H2De, H3Noun, Marker("Herkunft"),
       ListOf(<<NestedMixed, NestedEmptyItem, NestedTwice>>)>>,
     <<H2De, H3Noun, Marker("Herkunft"),
       ListOf(<<TermOk, TermNoLanguage, TermNoTerm, TermOneParameter, TransliterationOk,
                TransliterationEmpty>>)>>,
     <<H2En, H3NounEn, Marker("Aussprache"),
       ListOf(<<Marker("Reime"), RhymeOf(<<Text("ord")>>, "Englisch"),
                RhymeOf(<<Text("ort")>>, "Deutsch"), RhymeOf(<<Text("ort")>>, "Klingonisch"),
                RhymeOf(<< >>, "Deutsch"), Template("Reim", Parameters1("ort"))>>)>>,
     <<H2De, H3Noun, Template("erweitern", << >>), H4Translations, H4Translations>>,
     <<H2De, H3Noun, Marker("Aussprache"),
       DefinitionList(<<Details(<<Marker("IPA"), IpaOk>>), Details(<<Marker("IPA"), IpaOk>>),
                        Details(<<Marker("IPA"), IpaOk>>),
                        Details(<<Marker("Reime"), RhymeOf(<<Text("ort")>>, "Deutsch")>>)>>)>>,
     <<H2De, H3Noun, MarkerParameter("Synonyme"), PlainList, Marker("Herkunft"), PlainList,
       Marker("Herkunft"), PlainList>>,
     <<H2De, H3Noun, OverviewDe, PlainText, H2En, H3NounEn, OverviewEn>>,
     <<H2De, H3Noun, OverviewEn>>,
     <<H2En, H3NounEn, OverviewEn, OverviewDe>>,
     <<H2De, H3ThreeParameters>>,
     <<H2Unknown, H3Noun>>,
     <<H2De, H3UnknownLanguage, H3Noun>>,
     <<H2De, H3Noun, H2Unknown, H2En, H3NounEn>>,
     <<H2De, H3Noun, MarkerParameter("Herkunft"), PlainList>>,
     <<H2De, H3Noun, Marker("Herkunft"), PlainList, MarkerParameter("Herkunft"), PlainList,
       MarkerParameter("Synonyme")>>,
     <<H2De, H3Noun, Marker("Herkunft"), PlainList, Marker("Herkunft"), PlainList>>,
     <<H2De, H3Noun, Marker("Aussprache"), PlainList, Marker("Aussprache"), PlainList,
       H3Verb>>,
     <<H2De, H3Noun, MarkerParameter("Aussprache"), Marker("Aussprache"), PlainText>>,
     <<H2De, H3Empty, H3Text, H3Noun>>,
     <<H2Shape, H2Unknown, H2De, H3Empty, H3Text>>,
     <<H2OtherTitle, H3Noun>>,
     <<H2De, H3Noun, H4TranslationsParameter, H4Translations>>,
     <<H2De, H3Noun, H4Other, H5, H4Translations, TranslationTable>>,
     <<H2De, H3Noun, Marker("Quellen"), Marker("Referenzen"), PlainList,
       Marker("Referenzen")>>,
     <<H2De, H3Noun, ItalicName, Marker("Ähnlichkeiten 1"), ParagraphBreak>>,
     <<H2De, H3Noun, Marker("Herkunft"), DefinitionList(<<Term(<<Text("a")>>)>>)>>,
     <<H2De, H3Noun, Marker("Herkunft"),
       DefinitionList(<<Details(<< >>), Details(<<Text("a")>>), Details(<<NestedOk>>)>>)>>,
     <<H2De, H3Noun, Marker("Beispiele"),
       DefinitionList(<<Term(<<Text("a")>>), Details(<<Text("a")>>), Details(<<Italic>>)>>)>>,
     <<H2De, H3Noun, Marker("Aussprache"),
       DefinitionList(<<Term(<<Text("a")>>), Details(<< >>),
                        Details(<<Marker("IPA"), IpaOk>>), Details(<<Marker("IPA"), IpaOk>>),
                        Details(<<Marker("Reime")>>)>>)>>,
     <<H2De, H3Noun, Marker("Synonyme"), PlainList, Marker("Worttrennung"), PlainList>>}

Pages ==
    TopPages \cup BodyPages \cup ListPages \cup ExamplePages \cup AudioPages
    \cup DetailsPages \cup SimpleMarkerPages \cup OverviewPages \cup DocumentedPages
    \cup ScenarioPages

----------------------------------------------------------------------------
(* A page long enough to fill the log                                      *)

\* `s` repeated `n` times
RECURSIVE Rep(_, _)
Rep(s, n) ==
    IF n = 0 THEN ""
    ELSE Rep(s \o s, n \div 2) \o (IF n % 2 = 1 THEN s ELSE "")

\* One more unrecognized text node than the log may hold in a debug build,
\* then a language section.
LongCount == WarningLimit + 1
LongSuffix == <<H2De, H3Noun, PlainText>>
LongLine == RenderNode(PlainText) \o "~"

LongText == Rep(LongLine, LongCount) \o RenderPage(LongSuffix)

LongNodes ==
    [i \in 1..LongCount |->
        [PlainText EXCEPT !.start = Len(LongLine) * (i - 1),
                          !.end = Len(LongLine) * i - 1]]
    \o LayPage(LongSuffix, Len(LongLine) * LongCount)

----------------------------------------------------------------------------
(* The specification                                                       *)

\* Context { language: None, warnings: vec![], wiki_text }, not panicked
NewContext(wiki_text) ==
    [language |-> NoLanguage, warnings |-> << >>, wiki_text |-> wiki_text,
     panicked |-> FALSE]

\* parse is called on `page`, with the text it was tokenized from.
Start(page) ==
    /\ title = PageTitle
    /\ nodes = LayPage(page, 0)
    /\ context = NewContext(RenderPage(page))
    /\ language_entries = << >>
    /\ node_index = 0
    /\ language_frame = NoFrame
    /\ pos_frame = NoFrame
    /\ pc = "parse"
    /\ history = << >>

Init ==
    /\ debug_assertions \in BOOLEAN
    /\ \E page \in Pages : Start(page)

\* parse on the long page after `done` iterations of its loop, each of which
\* met a text node, recorded Unrecognized for it and moved on by one.
StartLong(done) ==
    /\ title = PageTitle
    /\ nodes = LongNodes
    /\ context =
            [NewContext(LongText) EXCEPT
                !.warnings = [i \in 1..done |->
                                Warning(LongNodes[i], NoLanguage, "Unrecognized")]]
    /\ language_entries = << >>
    /\ node_index = done
    /\ language_frame = NoFrame
    /\ pos_frame = NoFrame
    /\ pc = "parse"
    /\ history =
            [i \in 1..done |->
                [loop |-> "parse", at |-> i - 1, before |-> i - 1, after |-> i,
                 leaves |-> FALSE, rule |-> "other", warnings |-> i - 1,
                 language |-> NoLanguage, pos_entries |-> 0, language_entries |-> 0]]

\* The long page from its first node, and from the iteration that fills the log.
InitLong ==
    /\ debug_assertions \in BOOLEAN
    /\ \E done \in {0, WarningLimit - 1} : StartLong(done)

Next ==
    \/ ParseStep
    \/ ParseReturn
    \/ LanguageStep
    \/ LanguageReturn
    \/ PosStep
    \/ PosReturn

Spec == Init /\ [][Next]_vars

SpecLong == InitLong /\ [][Next]_vars

----------------------------------------------------------------------------
(* Reading the history, the log and the entries                            *)

Steps == 1..Len(history)

\* The node step `i` examines (the step is not the exit at the end of a slice).
NodeOf(i) == nodes[history[i].at + 1]

\* The page position where the slice of step `i`'s loop starts.
BaseOf(i) == history[i].at - history[i].before

\* The length of the log before step `i` (for the step after the last: now).
WarningsBefore(i) ==
    IF i <= Len(history) THEN history[i].warnings ELSE Len(context.warnings)

\* The diagnostics step `i` recorded.
WarningsOf(i) == SubSeq(context.warnings, history[i].warnings + 1, WarningsBefore(i + 1))

\* The entries pushed before step `i` (for the step after the last: now).
PosEntriesBefore(i) ==
    IF i <= Len(history) THEN history[i].pos_entries
    ELSE IF language_frame.live THEN Len(language_frame.pos_entries) ELSE 0

LanguageEntriesBefore(i) ==
    IF i <= Len(history) THEN history[i].language_entries ELSE Len(language_entries)

\* The diagnostics of the log that lie on `node`, of kind `message`.
WarningsOn(node, message) ==
    {k \in 1..Len(context.warnings) :
        /\ context.warnings[k].start = node.start
        /\ context.warnings[k].end = node.end
        /\ context.warnings[k].message = message}

Range(s) == {s[k] : k \in 1..Len(s)}

\* The Unknown elements of a sequence of Flowing elements, nested lists included.
RECURSIVE UnknownsIn(_)
UnknownsIn(flow) ==
    UNION {CASE flow[k].type = "Unknown" -> {flow[k]}
             [] flow[k].type = "List" ->
                    UNION {UnknownsIn(flow[k].items[j]) : j \in 1..Len(flow[k].items)}
             [] OTHER -> {} :
           k \in 1..Len(flow)}

\* The fields of a PosEntry that hold a list of items.
ListFields == Slots \ {"pronunciation", "examples"}

\* The Unknown elements of a PosEntry.
EntryUnknowns(entry) ==
    UnknownsIn(entry.details)
    \cup UNION {UnknownsIn(item) : item \in UNION {Range(entry[field]) : field \in ListFields}}
    \cup UNION {UnknownsIn(example.example) \cup UnknownsIn(example.translation) :
                example \in Range(entry.examples)}
    \cup UnknownsIn(entry.audio) \cup UnknownsIn(entry.ipa) \cup UnknownsIn(entry.rhymes)
    \cup (IF entry.overview.some
          THEN UNION {UnknownsIn(value) : value \in Range(entry.overview.v.unnamed_parameters)}
          ELSE {})

\* The PosEntry values of the output so far.
OutputPosEntries == UNION {Range(entry.pos_entries) : entry \in Range(language_entries)}

\* Every PosEntry built so far: in the output, in the running language
\* section, and the one the running body would push now.
BuiltPosEntries ==
    OutputPosEntries
    \cup (IF language_frame.live THEN Range(language_frame.pos_entries) ELSE {})
    \cup (IF pos_frame.live THEN {PosEntry(pos_frame)} ELSE {})

\* The offsets of every node of a node sequence, at any depth.
RECURSIVE SpansOf(_)
SpansOf(ns) ==
    UNION {{<<ns[k].start, ns[k].end>>}
           \cup SpansOf(ns[k].nodes) \cup SpansOf(ns[k].name)
           \cup UNION {SpansOf(p.name) \cup SpansOf(p.value) : p \in Range(ns[k].parameters)}
           \cup UNION {SpansOf(item.nodes) : item \in Range(ns[k].items)} :
           k \in 1..Len(ns)}

----------------------------------------------------------------------------
(* C1                                                                      *)

\* C1: for every finite node sequence, title and text, parse returns an Output
\* and never aborts. This is the part that fails: in a build that keeps
\* debug assertions, add_warning panics once the log holds WarningLimit
\* entries, so parse on a page with more unrecognized nodes than that unwinds
\* instead of returning.
ParseNeverAborts == pc # "panic"

----------------------------------------------------------------------------
(* C2                                                                      *)

\* C2: every Unknown element built holds exactly the text between the start
\* and end offsets of the node it replaces, a node of the page; so it does
\* when its diagnostic lies on a parameter of that node.
UnknownHoldsNodeText ==
    \A entry \in BuiltPosEntries :
        \A unknown \in EntryUnknowns(entry) :
            /\ unknown.value = Slice(context.wiki_text, unknown.node[1], unknown.node[2])
            /\ unknown.node \in SpansOf(nodes)

\* An Unknown is in the output whose ValueUnrecognized diagnostic lies on a
\* parameter inside the node, not on the node.
UnknownWithParameterWarning ==
    /\ pc = "done"
    /\ \E entry \in OutputPosEntries :
        \E unknown \in EntryUnknowns(entry) :
            \E k \in 1..Len(context.warnings) :
                /\ context.warnings[k].message = "ValueUnrecognized"
                /\ unknown.node[1] < context.warnings[k].start
                /\ context.warnings[k].end < unknown.node[2]
                /\ WarningsOn([start |-> unknown.node[1], end |-> unknown.node[2]],
                              "ValueUnrecognized") = {}

----------------------------------------------------------------------------
(* C3                                                                      *)

\* Step `i` is the return of parse_language.
IsLanguageReturn(i) == history[i].loop = "language" /\ history[i].leaves

\* The heading of the language section whose loop takes step `i`.
LanguageHeadingOf(i) == nodes[BaseOf(i)]

\* C3: a language section that ends with no PosEntry pushes no LanguageEntry
\* and records exactly one diagnostic at its end, SectionEmpty on its heading,
\* the only SectionEmpty on that heading in the log; a section that ends with
\* entries pushes one LanguageEntry and records nothing on its heading; and
\* every LanguageEntry of the output holds at least one PosEntry.
EmptySectionYieldsNoEntry ==
    /\ \A i \in Steps :
        IsLanguageReturn(i) =>
            IF history[i].pos_entries = 0
            THEN /\ LanguageEntriesBefore(i + 1) = history[i].language_entries
                 /\ WarningsOf(i) = <<Warning(LanguageHeadingOf(i), history[i].language,
                                              "SectionEmpty")>>
                 /\ Cardinality(WarningsOn(LanguageHeadingOf(i), "SectionEmpty")) = 1
            ELSE /\ LanguageEntriesBefore(i + 1) = history[i].language_entries + 1
                 /\ WarningsOf(i) = << >>
                 /\ WarningsOn(LanguageHeadingOf(i), "SectionEmpty") = {}
    /\ \A entry \in Range(language_entries) : entry.pos_entries # << >>

\* A parse has ended in which one language section gave no entry and another
\* gave one.
EmptySectionBesideFullOne ==
    /\ pc = "done"
    /\ language_entries # << >>
    /\ \E i \in Steps : IsLanguageReturn(i) /\ history[i].pos_entries = 0

----------------------------------------------------------------------------
(* C4                                                                      *)

\* Step `i` is the language-level loop at a level-3 heading whose first child
\* is a Wortart marker with two unnamed parameters.
IsPosHeadingStep(i) ==
    /\ history[i].loop = "language"
    /\ ~history[i].leaves
    /\ NodeOf(i).kind = "Heading"
    /\ NodeOf(i).level = 3
    /\ NodeOf(i).nodes # << >>
    /\ NodeOf(i).nodes[1].kind = "Template"
    /\ text_equals(NodeOf(i).nodes[1].name, "Wortart")
    /\ Len(NodeOf(i).nodes[1].parameters) = 2
    /\ \A k \in 1..2 : ~NodeOf(i).nodes[1].parameters[k].named

PosParameterOf(i) == NodeOf(i).nodes[1].parameters[1]
LanguageParameterOf(i) == NodeOf(i).nodes[1].parameters[2]

\* The marker's language parameter does not name the active language.
IsMismatchStep(i) ==
    /\ IsPosHeadingStep(i)
    /\ language_of_parameter(LanguageParameterOf(i)) # Some(history[i].language)

\* The step enters no body, so no PosEntry comes of its heading.
NoPosEntryFor(i) ==
    /\ history[i].rule = "heading3"
    /\ PosEntriesBefore(i + 1) = history[i].pos_entries

\* C4 as stated: every such heading gives no PosEntry and exactly one
\* ValueConflicting diagnostic, whatever its part-of-speech parameter is.
MismatchAlwaysConflicting ==
    \A i \in Steps :
        IsMismatchStep(i) =>
            /\ NoPosEntryFor(i)
            /\ Cardinality({k \in 1..Len(WarningsOf(i)) :
                                WarningsOf(i)[k].message = "ValueConflicting"}) = 1

\* C4, amended: every such heading gives no PosEntry and exactly one
\* diagnostic. It is ValueConflicting, on the language parameter, when the
\* part-of-speech parameter names a known part of speech and the language
\* parameter a known language; it is ValueUnrecognized on the part-of-speech
\* parameter when that names no part of speech, and ValueUnrecognized on the
\* language parameter when only that names no language.
MismatchDiagnosedInOrder ==
    \A i \in Steps :
        IsMismatchStep(i) =>
            /\ NoPosEntryFor(i)
            /\ WarningsOf(i) =
                IF ~pos_of_parameter(PosParameterOf(i)).some
                THEN <<Warning(PosParameterOf(i), history[i].language, "ValueUnrecognized")>>
                ELSE IF ~language_of_parameter(LanguageParameterOf(i)).some
                THEN <<Warning(LanguageParameterOf(i), history[i].language,
                               "ValueUnrecognized")>>
                ELSE <<Warning(LanguageParameterOf(i), history[i].language,
                               "ValueConflicting")>>

\* A heading naming a known part of speech and another known language has
\* been dispatched.
KnownMismatchDispatched ==
    \E i \in Steps :
        /\ IsMismatchStep(i)
        /\ pos_of_parameter(PosParameterOf(i)).some
        /\ language_of_parameter(LanguageParameterOf(i)).some

----------------------------------------------------------------------------
(* C5                                                                      *)

IsPosStep(i) == history[i].loop = "pos"

\* Steps `i` and `j` belong to the same call of parse_pos_section.
SameBody(i, j) == IsPosStep(i) /\ IsPosStep(j) /\ BaseOf(i) = BaseOf(j)

IsSectionStep(i) == IsPosStep(i) /\ history[i].rule = "section"

\* The slot of the section marker step `i` examines.
SlotOf(i) == SectionSlot(parse_text(NodeOf(i).name).v)

\* The section steps before `i` in the same body, for the same slot.
EarlierCalls(i) ==
    {j \in 1..(i - 1) : SameBody(i, j) /\ IsSectionStep(j) /\ SlotOf(j) = SlotOf(i)}

\* Step `i` is a second (or later) call for its slot in its body.
IsRepeatedSection(i) == IsSectionStep(i) /\ EarlierCalls(i) # {}

\* Step `r` is parse_pos_section leaving its loop and pushing its PosEntry.
IsPosReturn(r) == IsPosStep(r) /\ history[r].rule \in {"break", "end"}

Least(set) == CHOOSE x \in set : \A y \in set : x <= y

\* The returns of parse_language after step `r`.
LanguageReturnsAfter(r) == {e \in Steps : e > r /\ IsLanguageReturn(e)}

\* The PosEntry pushed at step `r`: in the running language section, or in
\* the LanguageEntry that section pushed when it ended.
EntryPushedAt(r) ==
    IF LanguageReturnsAfter(r) = {}
    THEN language_frame.pos_entries[history[r].pos_entries + 1]
    ELSE language_entries[history[Least(LanguageReturnsAfter(r))].language_entries + 1]
            .pos_entries[history[r].pos_entries + 1]

\* The field of `entry` a slot fills holds nothing.
FieldEmpty(entry, slot) ==
    IF slot = "pronunciation"
    THEN entry.audio = << >> /\ entry.ipa = << >> /\ entry.rhymes = << >>
    ELSE entry[slot] = << >>

\* C5: when the body loop calls the extractor again for a section it has
\* called it for, the call goes through (the loop goes on, one node further),
\* it records exactly one diagnostic, Duplicate on this later marker, and the
\* PosEntry the body pushes holds nothing in that section's field.
RepeatedSectionLeftEmpty ==
    \A i \in Steps :
        IsRepeatedSection(i) =>
            /\ ~history[i].leaves
            /\ history[i].after = history[i].before + 1
            /\ WarningsOf(i) = <<Warning(NodeOf(i), history[i].language, "Duplicate")>>
            /\ \A r \in Steps :
                (r > i /\ SameBody(i, r) /\ IsPosReturn(r)) =>
                    FieldEmpty(EntryPushedAt(r), SlotOf(i))

\* A body whose first call for a section took in a list met the marker again
\* and has pushed its PosEntry.
RepeatedSectionAfterList ==
    \E i \in Steps :
        /\ IsRepeatedSection(i)
        /\ \E j \in EarlierCalls(i) : history[j].after = history[j].before + 2
        /\ \E r \in Steps : r > i /\ SameBody(i, r) /\ IsPosReturn(r)

----------------------------------------------------------------------------
(* C6                                                                      *)

\* Step `i` is the body loop at a level-4 translations heading.
IsTranslationsStep(i) ==
    IsPosStep(i) /\ ~IsPosReturn(i) /\ IsTranslationsHeading(NodeOf(i))

\* The body of step `i` has met a translations heading before it.
IsRepeatedTranslations(i) ==
    /\ IsTranslationsStep(i)
    /\ \E j \in 1..(i - 1) : SameBody(i, j) /\ IsTranslationsStep(j)

\* The messages of the diagnostics step `i` recorded.
MessagesOf(i) == {WarningsOf(i)[k].message : k \in 1..Len(WarningsOf(i))}

\* C6: when the body loop meets a translations heading after another one (as
\* with two consecutive headings), parse_pos_section returns in that step: the
\* step records exactly one diagnostic, Duplicate on this heading; no later
\* step belongs to the body, so nothing after the heading is recognized in it;
\* and over the whole parse this is the body's one step that records a
\* Duplicate at a translations heading.
SecondTranslationsEndsBody ==
    \A i \in Steps :
        IsRepeatedTranslations(i) =>
            /\ history[i].leaves
            /\ history[i].rule = "translations_duplicate"
            /\ WarningsOf(i) = <<Warning(NodeOf(i), history[i].language, "Duplicate")>>
            /\ \A r \in Steps : r > i => ~SameBody(i, r)
            /\ {r \in Steps : /\ SameBody(i, r)
                              /\ IsTranslationsStep(r)
                              /\ "Duplicate" \in MessagesOf(r)} = {i}

\* A body has met two translations headings one after the other, and parse
\* has gone on to its end.
ConsecutiveTranslationsMet ==
    /\ pc = "done"
    /\ \E i \in Steps :
        /\ i > 1
        /\ IsTranslationsStep(i)
        /\ IsTranslationsStep(i - 1)
        /\ SameBody(i, i - 1)
        /\ history[i].at = history[i - 1].at + 1

----------------------------------------------------------------------------
(* C7                                                                      *)

IsDuplicateReturn(i) == IsPosStep(i) /\ history[i].rule = "translations_duplicate"

\* The page positions (from 1) of the headings of level 3 or above at or
\* after the first node of the body of step `i`.
HeadingsFrom(i) ==
    {h \in (BaseOf(i) + 1)..Len(nodes) : nodes[h].kind = "Heading" /\ nodes[h].level <= 3}

\* A step after `i` of the language-level loop examines position `h`: a
\* level-3 heading is dispatched there as a part-of-speech heading; at a
\* heading above level 3 the loop is left and the top-level loop examines the
\* heading, a level-2 one as a language heading.
DispatchedAfter(i, h) ==
    \E r \in Steps :
        /\ r > i
        /\ history[r].loop = "language"
        /\ history[r].at = h - 1
        /\ IF nodes[h].level = 3
           THEN history[r].rule \in {"pos", "heading3"}
           ELSE /\ history[r].rule = "break"
                /\ \E q \in Steps :
                    /\ q > r
                    /\ history[q].loop = "parse"
                    /\ history[q].at = h - 1
                    /\ history[q].rule \in
                            IF nodes[h].level = 2 THEN {"language", "heading2"} ELSE {"break"}

\* Position `h` is the node after an overview marker recognized after step
\* `i`, which the body loop passes over without examining it.
PassedByOverview(i, h) ==
    \E r \in Steps :
        /\ r > i
        /\ history[r].loop = "pos"
        /\ history[r].rule = "overview"
        /\ history[r].at = h - 2

\* The top-level loop has stopped at a heading of level 1 before position `h`.
StoppedBefore(h) ==
    \E q \in Steps :
        /\ history[q].loop = "parse"
        /\ history[q].rule = "break"
        /\ history[q].at < h - 1

----------------------------------------------------------------------------
(* C8                                                                      *)

\* The page of the crate's documentation, for one of the languages, parts of
\* speech and literal texts explored, is being parsed.
IsDocumentedPage(language, pos, literal) ==
    /\ Len(nodes) = 4
    /\ nodes[4].kind = "DefinitionList"
    /\ nodes = LayPage(ExamplePage(language, pos, literal), 0)

DocumentedLanguages ==
    {<<"Deutsch", "De">>, <<"Englisch", "En">>, <<"Französisch", "Fr">>}
DocumentedPos ==
    {<<"Substantiv", "Noun">>, <<"Verb", "Verb">>, <<"Redewendung", "Idiom">>}
DocumentedLiterals == {"Das Haus sei geeignet.", "x"}

\* C8: for the documented page (a language heading, a part-of-speech heading
\* of that language, a Beispiele marker, a definition list of one details
\* item holding literal text), the output holds exactly one LanguageEntry, of
\* that language, with exactly one PosEntry, of that part of speech, whose
\* examples are exactly one Example, its example the one Text of the literal
\* and its translation empty.
DocumentedPageGivesExample ==
    pc = "done" =>
        \A language \in DocumentedLanguages, pos \in DocumentedPos,
           literal \in DocumentedLiterals :
            IsDocumentedPage(language[1], pos[1], literal) =>
                /\ Len(language_entries) = 1
                /\ language_entries[1].language = language[2]
                /\ Len(language_entries[1].pos_entries) = 1
                /\ language_entries[1].pos_entries[1].pos = pos[2]
                /\ language_entries[1].pos_entries[1].examples =
                        <<[example |-> <<[type |-> "Text", value |-> literal]>>,
                           translation |-> << >>]>>

\* parse has ended on the documented page for an English verb.
DocumentedPageParsed ==
    /\ pc = "done"
    /\ IsDocumentedPage("Englisch", "Verb", "Das Haus sei geeignet.")

----------------------------------------------------------------------------
(* C9                                                                      *)

\* The first two nodes of the pages that hold one marker.
GermanNounSection == LayPage(<<H2De, H3Noun>>, 0)
GermanSection == LayPage(<<H2De>>, 0)

IsMarker(node, name) ==
    node.kind = "Template" /\ text_equals(node.name, name) /\ node.parameters = << >>

\* The page is a German noun section with the section marker `name` and a
\* definition list of one details item of `count` nodes.
IsOneItemPage(name, count) ==
    /\ Len(nodes) = 4
    /\ SubSeq(nodes, 1, 2) = GermanNounSection
    /\ IsMarker(nodes[3], name)
    /\ nodes[4].kind = "DefinitionList"
    /\ Len(nodes[4].items) = 1
    /\ nodes[4].items[1].type_ = "Details"
    /\ Len(nodes[4].items[1].nodes) = count

\* `node` is a marker of the table `names`.
IsSimpleMarker(node, names) ==
    node.kind = "Template" /\ parse_text(node.name).some /\ parse_text(node.name).v \in names

\* A flat list section whose one item is one simple marker of list.rs.
IsListMarkerPage ==
    /\ IsOneItemPage("Herkunft", 1)
    /\ IsSimpleMarker(nodes[4].items[1].nodes[1],
                      SimpleNames \cup LanguageAdjectiveNames \cup Languages)

\* A pronunciation section whose one item is Hörbeispiele and one simple
\* marker of pronunciation.rs.
IsAudioMarkerPage ==
    /\ IsOneItemPage("Aussprache", 2)
    /\ IsMarker(nodes[4].items[1].nodes[1], "Hörbeispiele")
    /\ IsSimpleMarker(nodes[4].items[1].nodes[2], AudioSimpleNames)

\* A noun heading whose details are one single-gender marker.
IsGenderMarkerPage ==
    /\ Len(nodes) = 2
    /\ SubSeq(nodes, 1, 1) = GermanSection
    /\ nodes[2].kind = "Heading"
    /\ nodes[2].level = 3
    /\ Len(nodes[2].nodes) = 2
    /\ nodes[2].nodes[1] = LayNode(Wortart("Substantiv", "Deutsch"), nodes[2].start + 3)
    /\ IsSimpleMarker(nodes[2].nodes[2], GenderNames)

\* What the marker `node` has to give: its element and no diagnostic when it
\* has no parameter, else an Unknown for the whole marker and one
\* ValueUnrecognized diagnostic (on the marker, of the German section).
MarkerGives(node, element, given) ==
    IF node.parameters = << >>
    THEN given = <<element>> /\ context.warnings = << >>
    ELSE /\ Len(given) = 1
         /\ given[1].type = "Unknown"
         /\ given[1].value = Slice(context.wiki_text, node.start, node.end)
         /\ context.warnings = <<Warning(node, "De", "ValueUnrecognized")>>

\* The one PosEntry of the output.
OnlyPosEntry == language_entries[1].pos_entries[1]

HasOnlyPosEntry ==
    Len(language_entries) = 1 /\ Len(language_entries[1].pos_entries) = 1

\* C9: a simple marker, where its table is read (a list item for Komp.,
\* Part., Pl., Pl.1 to Pl.4, Prät., Sup., kPl. and the language and
\* language-adjective codes; a pronunciation item for Gen., Part., Pl., Pl.1
\* to Pl.4, Prät.; the heading's details for the single genders), gives its
\* marker element and no diagnostic when it has no parameter, and one Unknown
\* for the whole marker with one ValueUnrecognized diagnostic when it has any.
SimpleMarkerNeedsNoParameter ==
    pc = "done" =>
        /\ IsListMarkerPage =>
            /\ HasOnlyPosEntry
            /\ Len(OnlyPosEntry.etymology) = 1
            /\ MarkerGives(nodes[4].items[1].nodes[1],
                           SimpleOutput(parse_text(nodes[4].items[1].nodes[1].name).v),
                           OnlyPosEntry.etymology[1])
        /\ IsAudioMarkerPage =>
            /\ HasOnlyPosEntry
            /\ MarkerGives(nodes[4].items[1].nodes[2],
                           Flow(AudioSimpleVariant(
                                    parse_text(nodes[4].items[1].nodes[2].name).v)),
                           OnlyPosEntry.audio)
        /\ IsGenderMarkerPage =>
            /\ HasOnlyPosEntry
            /\ MarkerGives(nodes[2].nodes[2],
                           Flow(Gender(parse_text(nodes[2].nodes[2].name).v)),
                           OnlyPosEntry.details)

\* parse has ended on a page whose one list item is a simple marker with
\* parameters.
ListMarkerWithParameters ==
    /\ pc = "done"
    /\ IsListMarkerPage
    /\ Len(nodes[4].items[1].nodes[1].parameters) = MaxParameters

----------------------------------------------------------------------------
(* C10                                                                     *)

\* The language the heading of a recognized language section names.
LanguageNamed(heading_node) ==
    language_of_parameter(heading_node.nodes[2].parameters[1]).v

\* The steps of the top-level loop that entered a language section before
\* step `i`.
SectionsBefore(i) ==
    {j \in 1..(i - 1) : history[j].loop = "parse" /\ history[j].rule = "language"}

Greatest(set) == CHOOSE x \in set : \A y \in set : y <= x

\* The language of the section in which step `i` (of the language-level loop
\* or of a body) is taken.
SectionLanguageOf(i) == LanguageNamed(NodeOf(Greatest(SectionsBefore(i))))

\* C10: the active language is none whenever the top-level loop is at its
\* head or parse has returned, and is the language its heading names while a
\* language section runs; every diagnostic recorded by a step of the
\* top-level loop carries no language, and every diagnostic recorded by a
\* step inside a language section (its loop, or a body below it) carries the
\* language of that section.
ActiveLanguageFollowsSection ==
    /\ pc \in {"parse", "done"} => context.language = NoLanguage
    /\ pc \in {"language", "pos"} =>
            context.language = LanguageNamed(language_frame.heading_node)
    /\ \A i \in Steps :
        /\ history[i].language =
                IF history[i].loop = "parse" THEN NoLanguage ELSE SectionLanguageOf(i)
        /\ \A k \in 1..Len(WarningsOf(i)) :
                WarningsOf(i)[k].language = history[i].language

\* parse has returned after a diagnostic of the English section was followed
\* by one of the top-level loop and one of the German section.
LanguageSetAndCleared ==
    /\ pc = "done"
    /\ \E k \in 1..Len(context.warnings) :
        /\ context.warnings[k].language = "En"
        /\ \E l \in (k + 1)..Len(context.warnings) :
            /\ context.warnings[l].language = NoLanguage
            /\ \E m \in (l + 1)..Len(context.warnings) :
                    context.warnings[m].language = "De"

----------------------------------------------------------------------------
(* C11                                                                     *)

\* The page positions (from 1) step `i` moves its loop's cursor past.
PassedBy(i) ==
    {p \in (history[i].at + 1)..(history[i].at + history[i].after - history[i].before) :
        p <= Len(nodes)}

\* The rule of step `i` takes in the node at position `p`: the node it
\* matched (a language heading, a part-of-speech heading, a section marker, a
\* translations heading, a recognized overview marker), or the definition
\* list of a section marker, or the table of a translations heading.
ConsumedByRule(i, p) ==
    \/ /\ p = history[i].at + 1
       /\ history[i].rule \in {"language", "pos", "section", "translations", "overview"}
    \/ /\ p = history[i].at + 2
       /\ history[i].rule \in {"section", "translations"}

\* A diagnostic of the log lies on the node at position `p`: it has the
\* node's span, or the span of a part of it (as for a heading that names an
\* unknown language, reported on the marker's parameter).
Diagnosed(p) ==
    \E k \in 1..Len(context.warnings) :
        /\ nodes[p].start <= context.warnings[k].start
        /\ context.warnings[k].end <= nodes[p].end

\* C11: when parse has ended, every node a dispatcher loop moved its cursor
\* past was taken in by the rule that matched or has a diagnostic on it. This
\* is the part that fails: after a recognized overview marker the body loop
\* moves on by two nodes, and the node behind the marker is passed with
\* neither.
NoNodeDroppedSilently ==
    pc = "done" =>
        \A i \in Steps : \A p \in PassedBy(i) : ConsumedByRule(i, p) \/ Diagnosed(p)

----------------------------------------------------------------------------
(* C12                                                                     *)

\* The count the extractor returned in section step `i`: what the cursor
\* moved beyond the marker itself.
ConsumedCount(i) == history[i].after - history[i].before - 1

\* The node after the marker of section step `i` is a definition list.
NextIsList(i) ==
    /\ history[i].at + 2 <= Len(nodes)
    /\ nodes[history[i].at + 2].kind = "DefinitionList"

\* The extractor accepts in section step `i`: the slot is still unfilled, the
\* marker has no parameters and a definition list follows.
IsAccepting(i) ==
    /\ EarlierCalls(i) = {}
    /\ NodeOf(i).parameters = << >>
    /\ NextIsList(i)

\* The context as it was before step `i`.
ContextBefore(i) ==
    [context EXCEPT !.warnings = SubSeq(@, 1, history[i].warnings),
                    !.language = history[i].language]

\* What the classifier of the section of step `i` gives for the list behind
\* the marker.
ClassifiedList(i) ==
    parse_list_by_kind(ContextBefore(i), nodes[history[i].at + 2].items,
                       SectionKind(parse_text(NodeOf(i).name).v))

\* C12: in every call of the generic extractor the count returned is 1 when
\* the slot is unfilled, the marker has no parameters and the next node is a
\* definition list, and 0 in every other case; and right after the call the
\* slot is filled, with the classifier's result for that list in the first
\* case and with the empty value of its type in every other.
ExtractorCountsAndFills ==
    \A i \in Steps :
        IsSectionStep(i) =>
            /\ ConsumedCount(i) = IF IsAccepting(i) THEN 1 ELSE 0
            /\ (i = Len(history) /\ pc = "pos") =>
                    pos_frame.slots[SlotOf(i)] =
                        IF IsAccepting(i)
                        THEN Some(ClassifiedList(i).value)
                        ELSE Some(DefaultOf(SectionKind(parse_text(NodeOf(i).name).v)))

\* A body is running whose last step was an accepting call that filled its
\* slot with an item, after a call that was rejected for want of a list.
ExtractorAcceptedAfterRejecting ==
    /\ pc = "pos"
    /\ IsSectionStep(Len(history))
    /\ IsAccepting(Len(history))
    /\ pos_frame.slots[SlotOf(Len(history))] # Some(<< >>)
    /\ \E j \in 1..(Len(history) - 1) :
        /\ SameBody(Len(history), j)
        /\ IsSectionStep(j)
        /\ ~NextIsList(j)

----------------------------------------------------------------------------
(* C13                                                                     *)

\* The diagnostics of step `i` that lie on node `node` or inside it.
WarningsWithin(i, node) ==
    {k \in 1..Len(WarningsOf(i)) :
        /\ node.start <= WarningsOf(i)[k].start
        /\ WarningsOf(i)[k].end <= node.end}

\* The kind of the rejection of section step `i`, in the order
\* parse_list_generic decides it; "" when the call accepts.
RejectionOf(i) ==
    IF EarlierCalls(i) # {} THEN "Duplicate"
    ELSE IF NodeOf(i).parameters # << >> THEN "ValueUnrecognized"
    ELSE IF ~NextIsList(i) THEN "SectionEmpty"
    ELSE ""

\* C13: a call of the generic extractor that rejects records exactly one
\* diagnostic, on the marker node, of kind Duplicate when the slot is already
\* filled, else ValueUnrecognized when the marker has a parameter, else
\* SectionEmpty when no definition list follows; a call that accepts records no
\* diagnostic on the marker (what it records lies inside the list it took in).
RejectionDecidedInOrder ==
    \A i \in Steps :
        IsSectionStep(i) =>
            IF RejectionOf(i) # ""
            THEN WarningsOf(i) =
                    <<Warning(NodeOf(i), history[i].language, RejectionOf(i))>>
            ELSE /\ WarningsWithin(i, NodeOf(i)) = {}
                 /\ WarningsWithin(i, nodes[history[i].at + 2]) = 1..Len(WarningsOf(i))

\* A marker with a parameter was met where its slot was already filled, and
\* another marker with a parameter was met where no list follows: two of the
\* conditions hold at once and the earlier one in the order decides.
RejectionsCompeted ==
    /\ \E i \in Steps :
        /\ IsSectionStep(i)
        /\ EarlierCalls(i) # {}
        /\ NodeOf(i).parameters # << >>
        /\ i < Len(history)
    /\ \E j \in Steps :
        /\ IsSectionStep(j)
        /\ EarlierCalls(j) = {}
        /\ NodeOf(j).parameters # << >>
        /\ ~NextIsList(j)
        /\ j < Len(history)

----------------------------------------------------------------------------
(* C14                                                                     *)

\* The later loop heads of the call of the loop that step `i` belongs to.
LaterHeads(i) ==
    {j \in Steps : j > i /\ history[j].loop = history[i].loop /\ BaseOf(j) = BaseOf(i)}

\* The cursor of the running call of loop `loop`.
CursorNow(loop) ==
    CASE loop = "parse" -> node_index
      [] loop = "language" -> language_frame.node_index
      [] loop = "pos" -> pos_frame.node_index

\* The cursor of the loop of step `i` when it next comes to its head: what
\* the step and the callee it entered added to it.
CursorAfter(i) ==
    IF LaterHeads(i) # {} THEN history[Least(LaterHeads(i))].before
    ELSE CursorNow(history[i].loop)

\* C14: in each of the three dispatcher loops every iteration that does not
\* leave its loop moves the loop's cursor forward by at least one node: the
\* cursor is greater after the iteration's own rule, and greater still or
\* equal when the loop next comes to its head.
EveryIterationAdvances ==
    \A i \in Steps :
        ~history[i].leaves =>
            /\ history[i].after > history[i].before
            /\ CursorAfter(i) >= history[i].after

\* Each of the three loops has taken an iteration that stays in the loop, the
\* body loop one that is back at its head and the language loop one that
\* entered a body which has returned.
ThreeLoopsIterated ==
    /\ \E i \in Steps : history[i].loop = "parse" /\ ~history[i].leaves /\ LaterHeads(i) # {}
    /\ \E i \in Steps :
        /\ history[i].loop = "language"
        /\ history[i].rule = "pos"
        /\ LaterHeads(i) # {}
    /\ \E i \in Steps : history[i].loop = "pos" /\ ~history[i].leaves /\ LaterHeads(i) # {}

----------------------------------------------------------------------------
(* C15                                                                     *)

\* Step `i` examines a node: it is no exit at the end of a slice, and no
\* break, where the callee hands its node to the caller unexamined.
IsExamination(i) ==
    /\ history[i].rule # "end"
    /\ ~(history[i].rule = "break" /\ history[i].loop # "parse")

\* C15: no node of the page is examined by more than one iteration of the
\* dispatcher loops over a whole parse.
NoNodeExaminedTwice ==
    \A i, j \in Steps :
        (i < j /\ IsExamination(i) /\ IsExamination(j)) => history[i].at # history[j].at

----------------------------------------------------------------------------
(* C16                                                                     *)

\* Node `p` of the page is a heading of level 3 or shallower.
IsBodyEnd(p) == nodes[p].kind = "Heading" /\ nodes[p].level <= 3

\* C16: no iteration of parse_pos_section moves its cursor past a heading of
\* level 3 or shallower, so the count it returns leaves the first such
\* heading after its own to the caller.
BodyStopsAtHeading ==
    \A i \in Steps :
        IsPosStep(i) => \A p \in PassedBy(i) : ~IsBodyEnd(p)

----------------------------------------------------------------------------
(* C17                                                                     *)

\* Step `i` is the top-level loop meeting a heading of level below 2.
IsTopBreak(i) == history[i].loop = "parse" /\ history[i].rule = "break"

\* The diagnostics of the log that lie behind node `node` in the page.
WarningsBehind(node) ==
    {k \in 1..Len(context.warnings) : context.warnings[k].start >= node.end}

\* C17: when the top-level loop meets a heading of level below 2 it records
\* exactly one diagnostic, Unrecognized on the heading, and parse ends with
\* the entries pushed so far; no node behind the heading has been examined by
\* any loop and no diagnostic of the log lies behind the heading.
TopBreakStopsScan ==
    \A i \in Steps :
        IsTopBreak(i) =>
            /\ WarningsOf(i) = <<Warning(NodeOf(i), history[i].language, "Unrecognized")>>
            /\ i = Len(history)
            /\ pc = "done"
            /\ Len(language_entries) = history[i].language_entries
            /\ \A j \in Steps : IsExamination(j) => history[j].at <= history[i].at
            /\ WarningsBehind(NodeOf(i)) = {}

----------------------------------------------------------------------------
(* C18                                                                     *)

\* A level-2 heading that is not `<title> (` + language marker + `)`.
HasOtherShape(node) == ~language_heading_parameter(node.nodes).some

\* A level-2 heading of the right shape whose language is not known.
HasUnknownLanguage(node) ==
    /\ language_heading_parameter(node.nodes).some
    /\ ~language_of_parameter(language_heading_parameter(node.nodes).v).some

\* A level-3 heading whose first child is no part-of-speech marker.
LacksPosMarker(node) ==
    \/ node.nodes = << >>
    \/ ~(node.nodes[1].kind = "Template" /\ text_equals(node.nodes[1].name, "Wortart"))

\* Step `i` examines a heading that fails the shape match of its level.
IsShapeFailure(i) ==
    /\ history[i].rule \notin {"end", "break"}
    /\ NodeOf(i).kind = "Heading"
    /\ \/ /\ history[i].loop = "parse"
          /\ NodeOf(i).level = 2
          /\ HasOtherShape(NodeOf(i)) \/ HasUnknownLanguage(NodeOf(i))
       \/ /\ history[i].loop = "language"
          /\ NodeOf(i).level = 3
          /\ LacksPosMarker(NodeOf(i))

\* The diagnostic the code records for the heading of shape failure `i`.
ShapeDiagnosticOf(i) ==
    IF history[i].loop = "parse"
    THEN IF HasOtherShape(NodeOf(i))
         THEN Warning(NodeOf(i), history[i].language, "ValueUnrecognized")
         ELSE Warning(language_heading_parameter(NodeOf(i).nodes).v, history[i].language,
                      "ValueUnrecognized")
    ELSE IF NodeOf(i).nodes = << >>
         THEN Warning(NodeOf(i), history[i].language, "Empty")
         ELSE Warning(NodeOf(i), history[i].language, "ValueUnrecognized")

\* C18 as stated: a heading that fails the shape match of its level is
\* recorded with exactly one diagnostic, of kind Unrecognized, and the cursor
\* advances by exactly one node.
ShapeFailureUnrecognized ==
    \A i \in Steps :
        IsShapeFailure(i) =>
            /\ Len(WarningsOf(i)) = 1
            /\ WarningsOf(i)[1].message = "Unrecognized"
            /\ CursorAfter(i) = history[i].before + 1

\* C18: a heading that fails the shape match of its level is recorded with
\* exactly one diagnostic and the cursor advances by exactly one node; the
\* diagnostic is ValueUnrecognized on the heading for a level-2 heading of
\* another shape, ValueUnrecognized on the language parameter for a level-2
\* heading with an unknown language, Empty on the heading for a level-3
\* heading without children, and ValueUnrecognized on the heading for a
\* level-3 heading whose first child is no part-of-speech marker.
ShapeFailureDiagnosed ==
    \A i \in Steps :
        IsShapeFailure(i) =>
            /\ WarningsOf(i) = <<ShapeDiagnosticOf(i)>>
            /\ ~history[i].leaves
            /\ history[i].after = history[i].before + 1
            /\ CursorAfter(i) = history[i].before + 1

\* One parse has met a level-2 heading of another shape, one with an unknown
\* language, a level-3 heading without children and one with a text as
\* first child, and has gone on after the last of them.
FourShapeFailuresMet ==
    /\ \E i \in Steps : IsShapeFailure(i) /\ history[i].loop = "parse"
                        /\ HasOtherShape(NodeOf(i))
    /\ \E i \in Steps : IsShapeFailure(i) /\ history[i].loop = "parse"
                        /\ HasUnknownLanguage(NodeOf(i))
    /\ \E i \in Steps : IsShapeFailure(i) /\ history[i].loop = "language"
                        /\ NodeOf(i).nodes = << >>
    /\ \E i \in Steps : IsShapeFailure(i) /\ history[i].loop = "language"
                        /\ NodeOf(i).nodes # << >> /\ i < Len(history)

----------------------------------------------------------------------------
(* C19                                                                     *)

\* C19: every step of a parse leaves the diagnostics recorded before it
\* unchanged at the head of the log, appending what add_warning was called
\* for, and no call of add_warning fails on its assertion that the log holds
\* fewer than WarningLimit entries.
AddWarningNeverFails ==
    [][/\ Len(context'.warnings) >= Len(context.warnings)
       /\ SubSeq(context'.warnings, 1, Len(context.warnings)) = context.warnings
       /\ ~context'.panicked]_vars

----------------------------------------------------------------------------
(* C20                                                                     *)

\* The positions of the recognized overview markers in the body that
\* returned at step `r`: templates whose name is an overview of the active
\* language.
OverviewMarkersOf(r) ==
    {p \in (BaseOf(r) + 1)..history[r].at :
        /\ p <= Len(nodes)
        /\ nodes[p].kind = "Template"
        /\ parse_text(nodes[p].name).some
        /\ IsOverview(history[r].language, parse_text(nodes[p].name).v)}

\* What parse_overview makes of the marker at position `p`, met first in its
\* body.
OverviewOf(r, p) ==
    parse_overview(ContextBefore(r), nodes[p], parse_text(nodes[p].name).v,
                   nodes[p].parameters, None).output.v

\* C20: when a body holds two or more recognized overview markers, each one
\* after the first has exactly one Duplicate diagnostic on it and the
\* PosEntry pushed has no overview; when it holds exactly one, the PosEntry's
\* overview is the one made of that marker's name and parameters.
OneOverviewKept ==
    \A r \in Steps :
        IsPosReturn(r) =>
            /\ Cardinality(OverviewMarkersOf(r)) >= 2 =>
                /\ EntryPushedAt(r).overview = None
                /\ \A p \in OverviewMarkersOf(r) \ {Least(OverviewMarkersOf(r))} :
                        Cardinality(WarningsOn(nodes[p], "Duplicate")) = 1
            /\ Cardinality(OverviewMarkersOf(r)) = 1 =>
                EntryPushedAt(r).overview = OverviewOf(r, Least(OverviewMarkersOf(r)))

----------------------------------------------------------------------------
(* C21                                                                     *)

\* Step `i` is the body loop taking in an overview marker, the first of its
\* body, and the body is back at the head of its loop.
IsOverviewTaken(i) ==
    /\ i = Len(history)
    /\ pc = "pos"
    /\ IsPosStep(i)
    /\ history[i].rule = "overview"
    /\ pos_frame.overview.some
    /\ pos_frame.overview.v.some

\* The map the overview just taken in holds.
NamedParametersNow == pos_frame.overview.v.v.named_parameters

\* Parameter `k` of the marker of step `i` has a name, `name`.
IsNamed(i, k, name) == parse_parameter_name(NodeOf(i).parameters[k]) = Some(name)

\* The text of the value of parameter `k`, if it is flat text.
ValueText(i, k) == parse_text(NodeOf(i).parameters[k].value)

\* The names of the parameters of the marker of step `i`.
NamesOf(i) ==
    {parse_parameter_name(NodeOf(i).parameters[k]).v :
        k \in {n \in 1..Len(NodeOf(i).parameters) :
                    parse_parameter_name(NodeOf(i).parameters[n]).some}}

\* The parameters before `k` that gave their name `name` with any value ...
SeenBefore(i, k, name) == {j \in 1..(k - 1) : IsNamed(i, j, name)}

\* ... and those whose value was stored under it.
StoredBefore(i, k, name) == {j \in SeenBefore(i, k, name) : ValueText(i, j).some}

\* The Duplicate diagnostics step `i` recorded on parameter `k`.
DuplicatesAt(i, k) ==
    {w \in 1..Len(WarningsOf(i)) :
        WarningsOf(i)[w] =
            Warning(NodeOf(i).parameters[k], history[i].language, "Duplicate")}

----------------------------------------------------------------------------
(* C22                                                                     *)

\* Every sequence of Flowing elements a PosEntry holds at its top.
FlowsOf(entry) ==
    {entry.details, entry.audio, entry.ipa, entry.rhymes}
    \cup UNION {Range(entry[field]) : field \in ListFields}
    \cup UNION {{example.example, example.translation} :
                example \in Range(entry.examples)}
    \cup (IF entry.overview.some THEN Range(entry.overview.v.unnamed_parameters) ELSE {})

\* The List elements of `flow` have items, and none of their items holds a List.
IsOneLevel(flow) ==
    \A k \in 1..Len(flow) :
        flow[k].type = "List" =>
            /\ flow[k].items # << >>
            /\ \A j \in 1..Len(flow[k].items) : \A m \in 1..Len(flow[k].items[j]) :
                    flow[k].items[j][m].type # "List"

\* Step `i` is the body loop taking the list of a flat list section into its
\* slot, and the body is back at the head of its loop.
IsListTaken(i) ==
    /\ i = Len(history)
    /\ pc = "pos"
    /\ IsSectionStep(i)
    /\ IsAccepting(i)
    /\ SectionKind(parse_text(NodeOf(i).name).v) = "list"

\* The items the slot just filled holds.
ItemsNow(i) == pos_frame.slots[SlotOf(i)].v

\* The unordered lists at the top of the details items of the list of step `i`.
TopLists(i) ==
    UNION {{item.nodes[n] : n \in {m \in 1..Len(item.nodes) :
                                        item.nodes[m].kind = "UnorderedList"}} :
           item \in {d \in Range(nodes[history[i].at + 2].items) : d.type_ = "Details"}}

\* The unordered lists inside the items of the unordered list `list`.
InnerLists(list) ==
    UNION {{item.nodes[n] : n \in {m \in 1..Len(item.nodes) :
                                        item.nodes[m].kind = "UnorderedList"}} :
           item \in Range(list.items)}

\* The diagnostics of step `i` that are `message` on `node`.
RecordedOn(i, node, message) ==
    {w \in 1..Len(WarningsOf(i)) :
        WarningsOf(i)[w] = Warning(node, history[i].language, message)}

\* The List elements of the items just taken in, by their place, ...
ListPlaces(i) ==
    UNION {{<<j, m>> : m \in {n \in 1..Len(ItemsNow(i)[j]) :
                                    ItemsNow(i)[j][n].type = "List"}} :
           j \in 1..Len(ItemsNow(i))}

\* ... and the items they hold, by their place.
NestedItemPlaces(i) ==
    UNION {{<<p, n>> : n \in 1..Len(ItemsNow(i)[p[1]][p[2]].items)} : p \in ListPlaces(i)}

\* The items of the top unordered lists that hold a node.
KeptNestedItems(i) ==
    UNION {{item \in Range(list.items) : item.nodes # << >>} : list \in TopLists(i)}

\* C22: no List element built has zero items and no item of a List element
\* holds a List element. When a flat list section is taken in, every empty
\* item of an unordered list has exactly one diagnostic, Empty, on it and is
\* not among the items of a List; an unordered list all of whose items are
\* empty gives no List element; and an unordered list inside an item of an
\* unordered list has exactly one diagnostic, Unrecognized, on it and stands
\* in the output as an Unknown element.
ListsNestOneLevel ==
    /\ \A entry \in BuiltPosEntries : \A flow \in FlowsOf(entry) : IsOneLevel(flow)
    /\ \A i \in Steps :
        IsListTaken(i) =>
            /\ \A list \in TopLists(i) : \A item \in Range(list.items) :
                    Cardinality(RecordedOn(i, item, "Empty")) =
                        IF item.nodes = << >> THEN 1 ELSE 0
            /\ Cardinality(ListPlaces(i)) =
                    Cardinality({list \in TopLists(i) :
                                    \E item \in Range(list.items) : item.nodes # << >>})
            /\ Cardinality(NestedItemPlaces(i)) = Cardinality(KeptNestedItems(i))
            /\ \A list \in TopLists(i) : \A inner \in InnerLists(list) :
                    /\ Cardinality(RecordedOn(i, inner, "Unrecognized")) = 1
                    /\ \E unknown \in UNION {UnknownsIn(ItemsNow(i)[j]) :
                                                j \in 1..Len(ItemsNow(i))} :
                            unknown.node = <<inner.start, inner.end>>

\* A flat list section was taken in from an item with three unordered lists:
\* one with an empty and a full item, one with only an empty item, and one
\* whose item holds an unordered list. It gave two List elements.
NestedListsSifted ==
    \E i \in Steps :
        /\ IsListTaken(i)
        /\ Cardinality(TopLists(i)) = 3
        /\ Cardinality(ListPlaces(i)) = 2
        /\ \E list \in TopLists(i) : InnerLists(list) # {}
        /\ \E list \in TopLists(i) : \A item \in Range(list.items) : item.nodes = << >>

----------------------------------------------------------------------------
(* C23                                                                     *)

\* The elements of a sequence of Flowing elements, those of nested lists
\* included.
ElementsIn(flow) ==
    Range(flow)
    \cup UNION {UNION {Range(flow[k].items[j]) : j \in 1..Len(flow[k].items)} :
                k \in {n \in 1..Len(flow) : flow[n].type = "List"}}

\* The cross-reference markers at the top of the details items of the list
\* of step `i`.
TermMarkers(i) ==
    UNION {{item.nodes[n] : n \in {m \in 1..Len(item.nodes) :
                                        /\ item.nodes[m].kind = "Template"
                                        /\ parse_text(item.nodes[m].name) \in
                                                {Some("Ü"), Some("Üt")}}} :
           item \in {d \in Range(nodes[history[i].at + 2].items) : d.type_ = "Details"}}

\* The number of parameters a cross-reference marker must have.
TermArity(marker) == IF parse_text(marker.name) = Some("Ü") THEN 2 ELSE 3

\* The parameters of `marker` that are empty or no flat text.
BadParameters(marker) ==
    {k \in 1..Len(marker.parameters) :
        ~parse_text_not_empty(marker.parameters[k].value).some}

IsWellFormedTerm(marker) ==
    AllUnnamed(marker.parameters, TermArity(marker)) /\ BadParameters(marker) = {}

\* The node the diagnostic of an ill-formed marker lies on: the first
\* offending parameter, or the marker when the parameters are not as many
\* unnamed ones as it must have.
OffendingNode(marker) ==
    IF AllUnnamed(marker.parameters, TermArity(marker))
    THEN marker.parameters[Least(BadParameters(marker))]
    ELSE marker

\* The Term element a well-formed marker gives.
TermOf(marker) ==
    FlowTerm(parse_text(marker.parameters[1].value).v,
             parse_text(marker.parameters[2].value).v,
             IF TermArity(marker) = 3 THEN parse_text(marker.parameters[3].value)
             ELSE None)

\* The elements of the items just taken in.
ElementsNow(i) == UNION {ElementsIn(ItemsNow(i)[j]) : j \in 1..Len(ItemsNow(i))}

\* The Unknown elements just taken in that stand for `node`.
UnknownsFor(i, node) ==
    {element \in ElementsNow(i) :
        element.type = "Unknown" /\ element.node = <<node.start, node.end>>}

\* Every Term element holds a language and a term, and a transliteration that
\* is not empty when it holds one.
IsFullTerm(element) ==
    element.type = "Term" =>
        /\ element.language # ""
        /\ element.term # ""
        /\ element.transliteration.some => element.transliteration.v # ""

\* C23 as stated: an ill-formed cross-reference marker, one with another
\* number of parameters included, gives one Unknown and one ValueUnrecognized
\* diagnostic that lies on a parameter and not on the whole marker.
TermDiagnosticOnParameter ==
    \A i \in Steps :
        IsListTaken(i) =>
            \A marker \in TermMarkers(i) :
                ~IsWellFormedTerm(marker) =>
                    /\ Cardinality(WarningsWithin(i, marker)) = 1
                    /\ Cardinality(UnknownsFor(i, marker)) = 1
                    /\ RecordedOn(i, marker, "ValueUnrecognized") = {}
                    /\ \E k \in 1..Len(marker.parameters) :
                            RecordedOn(i, marker.parameters[k], "ValueUnrecognized") # {}

\* C23: every Term element built holds a non-empty language and term and, when
\* it holds one, a non-empty transliteration. A cross-reference marker with
\* two (Ü) or three (Üt) unnamed parameters, all non-empty flat text, gives
\* the Term of their texts and no diagnostic; any other gives one Unknown for
\* the whole marker and exactly one diagnostic, ValueUnrecognized, which lies
\* on the first parameter that is empty or no flat text, or on the whole
\* marker when the parameters are not two (three) unnamed ones.
TermNeedsFullParameters ==
    /\ \A entry \in BuiltPosEntries : \A flow \in FlowsOf(entry) :
            \A element \in ElementsIn(flow) : IsFullTerm(element)
    /\ \A i \in Steps :
        IsListTaken(i) =>
            \A marker \in TermMarkers(i) :
                IF IsWellFormedTerm(marker)
                THEN /\ WarningsWithin(i, marker) = {}
                     /\ UnknownsFor(i, marker) = {}
                     /\ TermOf(marker) \in ElementsNow(i)
                ELSE /\ Cardinality(WarningsWithin(i, marker)) = 1
                     /\ Cardinality(RecordedOn(i, OffendingNode(marker),
                                               "ValueUnrecognized")) = 1
                     /\ Cardinality(UnknownsFor(i, marker)) = 1

\* An item was taken in that holds well-formed markers of both names, markers
\* with an empty and with a non-text parameter, and one with too few
\* parameters.
TermMarkersOfEachSort ==
    \E i \in Steps :
        /\ IsListTaken(i)
        /\ \E marker \in TermMarkers(i) : IsWellFormedTerm(marker) /\ TermArity(marker) = 2
        /\ \E marker \in TermMarkers(i) : IsWellFormedTerm(marker) /\ TermArity(marker) = 3
        /\ \E marker \in TermMarkers(i) :
                ~AllUnnamed(marker.parameters, TermArity(marker))
        /\ \E marker \in TermMarkers(i) :
                /\ AllUnnamed(marker.parameters, TermArity(marker))
                /\ 1 \in BadParameters(marker)
        /\ \E marker \in TermMarkers(i) :
                /\ AllUnnamed(marker.parameters, TermArity(marker))
                /\ BadParameters(marker) = {3}

----------------------------------------------------------------------------
(* C24                                                                     *)

\* Step `i` is the body loop taking the list of the examples section into its
\* slot, and the body is back at the head of its loop.
IsExamplesTaken(i) ==
    /\ i = Len(history)
    /\ pc = "pos"
    /\ IsSectionStep(i)
    /\ IsAccepting(i)
    /\ SectionKind(parse_text(NodeOf(i).name).v) = "examples"

\* The places of the definition lists among the nodes of `item`.
NestedListsAt(item) ==
    {n \in 1..Len(item.nodes) : item.nodes[n].kind = "DefinitionList"}

\* How many nodes of `item` the loop of parse_example takes into the example:
\* those before the first nested definition list.
ScannedLength(item) ==
    IF NestedListsAt(item) = {} THEN Len(item.nodes) ELSE Least(NestedListsAt(item)) - 1

\* A literal text node stands before the nested definition list of `item`.
HasTextBefore(item) ==
    \E n \in 1..ScannedLength(item) : item.nodes[n].kind = "Text"

\* The nodes of `item` behind its first nested definition list.
NodesBehindList(item) ==
    {item.nodes[n] : n \in (ScannedLength(item) + 2)..Len(item.nodes)}

\* The translation the first nested definition list of `item` holds.
TranslationLength(item) ==
    IF NestedListsAt(item) = {} THEN 0
    ELSE IF /\ Len(item.nodes[Least(NestedListsAt(item))].items) = 1
            /\ item.nodes[Least(NestedListsAt(item))].items[1].type_ = "Details"
    THEN Len(item.nodes[Least(NestedListsAt(item))].items[1].nodes)
    ELSE 0

\* The details items of the list of step `i`, ...
DetailsItemsOf(i) ==
    SelectSeq(nodes[history[i].at + 2].items, LAMBDA item : item.type_ = "Details")

\* ... and those of them that give an Example.
ExampleItemsOf(i) == SelectSeq(DetailsItemsOf(i), HasTextBefore)

HasTextElement(example) ==
    \E k \in 1..Len(example.example) : example.example[k].type = "Text"

\* C24: every Example built holds a Text element in its example field. When
\* the examples section is taken in, the Examples are those of the items that
\* hold a literal text node before their nested definition list, in order; an
\* item that holds none gives no Example and has exactly one Empty diagnostic
\* on it, with a translation or without; every node behind the nested
\* definition list has exactly one diagnostic, Unrecognized, and gives no
\* element: the example holds one element for each node before the list and
\* the translation one for each node of the list's single item.
ExampleNeedsText ==
    /\ \A entry \in BuiltPosEntries : \A example \in Range(entry.examples) :
            HasTextElement(example)
    /\ \A i \in Steps :
        IsExamplesTaken(i) =>
            /\ Len(ItemsNow(i)) = Len(ExampleItemsOf(i))
            /\ \A j \in 1..Len(ExampleItemsOf(i)) :
                /\ Len(ItemsNow(i)[j].example) = ScannedLength(ExampleItemsOf(i)[j])
                /\ Len(ItemsNow(i)[j].translation) = TranslationLength(ExampleItemsOf(i)[j])
            /\ \A item \in Range(DetailsItemsOf(i)) :
                /\ Cardinality(RecordedOn(i, item, "Empty")) =
                        IF HasTextBefore(item) THEN 0 ELSE 1
                /\ \A node \in NodesBehindList(item) :
                    /\ Cardinality(WarningsWithin(i, node)) = 1
                    /\ Cardinality(RecordedOn(i, node, "Unrecognized")) = 1

\* The examples section was taken in from an item without a literal text
\* before its nested list, with a translation in the list and a text behind
\* it: no Example was built.
TranslationWithoutExample ==
    \E i \in Steps :
        /\ IsExamplesTaken(i)
        /\ ItemsNow(i) = << >>
        /\ \E item \in Range(DetailsItemsOf(i)) :
            /\ ~HasTextBefore(item)
            /\ TranslationLength(item) > 0
            /\ \E node \in NodesBehindList(item) : node.kind = "Text"

----------------------------------------------------------------------------
(* C25                                                                     *)

\* Step `i` is the body loop taking the list of the pronunciation section
\* into its slot, and the body is back at the head of its loop.
IsPronunciationTaken(i) ==
    /\ i = Len(history)
    /\ pc = "pos"
    /\ IsSectionStep(i)
    /\ IsAccepting(i)
    /\ SectionKind(parse_text(NodeOf(i).name).v) = "pronunciation"

\* Item `k` of the list of step `i` opens with a marker of the pronunciation
\* section.
IsSubsection(i, k) ==
    /\ nodes[history[i].at + 2].items[k].type_ = "Details"
    /\ nodes[history[i].at + 2].items[k].nodes # << >>
    /\ first_template_name(nodes[history[i].at + 2].items[k].nodes[1]).some
    /\ first_template_name(nodes[history[i].at + 2].items[k].nodes[1]).v
            \in PronunciationNames

\* The items of the list of step `i` whose nodes parse_audio goes through:
\* the first for its marker, the marker without parameters.
AudioItemsOf(i) ==
    {nodes[history[i].at + 2].items[k] :
        k \in {n \in 1..Len(nodes[history[i].at + 2].items) :
                /\ IsSubsection(i, n)
                /\ nodes[history[i].at + 2].items[n].nodes[1].parameters = << >>
                /\ \A m \in 1..(n - 1) :
                    IsSubsection(i, m) =>
                        first_template_name(
                            nodes[history[i].at + 2].items[m].nodes[1])
                        # first_template_name(
                            nodes[history[i].at + 2].items[n].nodes[1])}}

\* The Reim markers among them.
RhymeMarkers(i) ==
    UNION {{item.nodes[n] : n \in {m \in 2..Len(item.nodes) :
                                        /\ item.nodes[m].kind = "Template"
                                        /\ parse_text(item.nodes[m].name) = Some("Reim")}} :
           item \in AudioItemsOf(i)}

\* The marker has two unnamed parameters, the first a non-empty flat text.
HasRhyme(marker) ==
    /\ AllUnnamed(marker.parameters, 2)
    /\ parse_text_not_empty(marker.parameters[1].value).some

\* The language the marker's second parameter names, if any.
RhymeLanguage(marker) == language_of_parameter(marker.parameters[2])

\* The three sequences of the pronunciation just taken in, ...
PronunciationFlows(i) == {ItemsNow(i).audio, ItemsNow(i).ipa, ItemsNow(i).rhymes}

\* ... their Rhyme elements by their place, ...
RhymePlaces(i) ==
    UNION {{<<field, k>> : k \in {n \in 1..Len(ItemsNow(i)[field]) :
                                        ItemsNow(i)[field][n].type = "Rhyme"}} :
           field \in {"audio", "ipa", "rhymes"}}

\* ... and their Unknown elements that stand for `node`.
PronunciationUnknowns(i, node) ==
    {element \in UNION {Range(flow) : flow \in PronunciationFlows(i)} :
        element.type = "Unknown" /\ element.node = <<node.start, node.end>>}

\* The one diagnostic of step `i` inside `marker` is `message` on `node`, and
\* the marker stands in the output as an Unknown.
IsRhymeFallback(i, marker, node, message) ==
    /\ Cardinality(WarningsWithin(i, marker)) = 1
    /\ Cardinality(RecordedOn(i, node, message)) = 1
    /\ PronunciationUnknowns(i, marker) # {}

\* C25: a Rhyme element is built only from a Reim marker with two unnamed
\* parameters, a rhyme that is non-empty flat text and a language parameter
\* that names the active language. Such a marker whose language parameter
\* names another language becomes an Unknown with one diagnostic,
\* ValueConflicting on the language parameter; one whose language parameter
\* names no language, an Unknown with one ValueUnrecognized on that
\* parameter. A marker without such a rhyme is an Unknown with one
\* ValueUnrecognized, on the rhyme parameter or, with other parameters than
\* two unnamed ones, on the marker.
RhymeOfActiveLanguageOnly ==
    \A i \in Steps :
        IsPronunciationTaken(i) =>
            /\ Cardinality(RhymePlaces(i)) =
                    Cardinality({marker \in RhymeMarkers(i) :
                                    /\ HasRhyme(marker)
                                    /\ RhymeLanguage(marker) = Some(history[i].language)})
            /\ \A marker \in RhymeMarkers(i) :
                CASE ~AllUnnamed(marker.parameters, 2) ->
                        IsRhymeFallback(i, marker, marker, "ValueUnrecognized")
                  [] AllUnnamed(marker.parameters, 2) /\ ~HasRhyme(marker) ->
                        IsRhymeFallback(i, marker, marker.parameters[1],
                                        "ValueUnrecognized")
                  [] HasRhyme(marker) /\ ~RhymeLanguage(marker).some ->
                        IsRhymeFallback(i, marker, marker.parameters[2],
                                        "ValueUnrecognized")
                  [] HasRhyme(marker) /\ RhymeLanguage(marker).some
                     /\ RhymeLanguage(marker).v # history[i].language ->
                        IsRhymeFallback(i, marker, marker.parameters[2],
                                        "ValueConflicting")
                  [] OTHER ->
                        /\ WarningsWithin(i, marker) = {}
                        /\ PronunciationUnknowns(i, marker) = {}
                        /\ \E p \in RhymePlaces(i) :
                            ItemsNow(i)[p[1]][p[2]].rhyme =
                                parse_text(marker.parameters[1].value).v

\* In an English section the rhymes were taken in from markers naming
\* English, German and no language: one Rhyme was built.
RhymesOfThreeLanguages ==
    \E i \in Steps :
        /\ IsPronunciationTaken(i)
        /\ history[i].language = "En"
        /\ Cardinality(RhymePlaces(i)) = 1
        /\ \E marker \in RhymeMarkers(i) :
            HasRhyme(marker) /\ RhymeLanguage(marker) = Some("De")
        /\ \E marker \in RhymeMarkers(i) : HasRhyme(marker) /\ ~RhymeLanguage(marker).some

----------------------------------------------------------------------------
(* C26                                                                     *)

\* The page positions of the nodes of the body that returned at its second
\* translations heading in step `i`, that heading included.
BodyNodesOf(i) == (BaseOf(i) + 1)..(history[i].at + 1)

\* The steps of the language loop after step `i` that examine node `p` and
\* record one diagnostic, Unrecognized, on it.
RescansOf(i, p) ==
    {j \in Steps :
        /\ j > i
        /\ history[j].loop = "language"
        /\ history[j].at = p - 1
        /\ WarningsOf(j) = <<Warning(nodes[p], history[j].language, "Unrecognized")>>}

\* C26: when a body returns at a second translations heading it pushes no
\* PosEntry and returns 0, so the language loop comes to its head next at the
\* first node of the body; and when parse has ended, the language loop has
\* examined every node of the body, up to that heading, and recorded one
\* Unrecognized diagnostic on it.
DuplicateBodyRescanned ==
    \A i \in Steps :
        IsDuplicateReturn(i) =>
            /\ PosEntriesBefore(i + 1) = history[i].pos_entries
            /\ i < Len(history) =>
                /\ history[i + 1].loop = "language"
                /\ history[i + 1].at = BaseOf(i)
            /\ pc = "done" => \A p \in BodyNodesOf(i) : RescansOf(i, p) # {}

----------------------------------------------------------------------------
(* C27                                                                     *)

\* The number of nodes of the slice the loop of step `i` was given.
SliceLength(i) == Len(nodes) - BaseOf(i)

\* C27: no loop's cursor exceeds the length of the slice of nodes the loop
\* was given: the count parse_pos_section and parse_language return is at most
\* that length, and the cursor of the caller after adding it is at most the
\* length of the caller's own slice.
CursorWithinSlice ==
    \A i \in Steps :
        /\ history[i].before <= SliceLength(i)
        /\ history[i].after <= SliceLength(i)

----------------------------------------------------------------------------
(* C28                                                                     *)

\* The calls of the extractor the running body has made.
CallsNow == {j \in Steps : IsSectionStep(j) /\ BaseOf(j) = pos_frame.base}

\* The items of the pronunciation list of step `i` that open with the
\* marker `name`.
SubsectionsOf(i, name) ==
    {k \in 1..Len(nodes[history[i].at + 2].items) :
        /\ IsSubsection(i, k)
        /\ first_template_name(nodes[history[i].at + 2].items[k].nodes[1]) = Some(name)}

\* C28: in a running body a slot is absent as long as no call was made for
\* it and filled from the first call on; from the second call on it holds
\* the empty value of its type, whatever list follows the marker, and the
\* PosEntry the body pushes holds nothing in that field. The same holds for
\* the three fields of a pronunciation section: a field whose marker opens
\* two or more items of the list is empty.
SlotNeverRefilled ==
    /\ (pc = "pos" /\ pos_frame.live) =>
        /\ \A slot \in Slots :
            pos_frame.slots[slot].some <=> \E j \in CallsNow : SlotOf(j) = slot
        /\ \A j \in CallsNow :
            EarlierCalls(j) # {} =>
                pos_frame.slots[SlotOf(j)] =
                    Some(DefaultOf(SectionKind(parse_text(NodeOf(j).name).v)))
    /\ \A r \in Steps :
        IsPosReturn(r) =>
            \A j \in 1..(r - 1) :
                (SameBody(j, r) /\ IsSectionStep(j) /\ EarlierCalls(j) # {}) =>
                    FieldEmpty(EntryPushedAt(r), SlotOf(j))
    /\ \A i \in Steps :
        IsPronunciationTaken(i) =>
            \A name \in PronunciationNames :
                Cardinality(SubsectionsOf(i, name)) >= 2 =>
                    ItemsNow(i)[PronunciationSlot(name)] = << >>

\* A body has pushed its PosEntry after it met one marker three times, each
\* time with a list behind it, the first of which was taken in.
ThirdOccurrenceWithList ==
    \E r \in Steps : \E j \in 1..(r - 1) :
        /\ IsPosReturn(r)
        /\ SameBody(j, r)
        /\ IsSectionStep(j)
        /\ Cardinality(EarlierCalls(j)) = 2
        /\ NextIsList(j)
        /\ \E first \in EarlierCalls(j) : IsAccepting(first)

----------------------------------------------------------------------------
(* C29                                                                     *)

\* Step `i` is a call of the extractor that rejects its marker, for a filled
\* slot or for a parameter, with a definition list right behind the marker.
IsRejectedBeforeList(i) ==
    /\ IsSectionStep(i)
    /\ EarlierCalls(i) # {} \/ NodeOf(i).parameters # << >>
    /\ NextIsList(i)

\* The nodes inside the items of the list behind the marker of step `i`.
ListSpansOf(i) ==
    UNION {SpansOf(item.nodes) : item \in Range(nodes[history[i].at + 2].items)}

\* C29: when the extractor rejects a marker for a filled slot or for a
\* parameter and a definition list follows the marker, the call does not
\* consume the list: the body loop examines the list in its next iteration
\* and records exactly one diagnostic, Unrecognized on the list; nothing is
\* recorded inside the list, the slot stays empty and the PosEntry the body
\* pushes holds no element made of a node of the list.
RejectedListLeftToLoop ==
    \A i \in Steps :
        IsRejectedBeforeList(i) =>
            /\ history[i].after = history[i].before + 1
            /\ WarningsWithin(i, nodes[history[i].at + 2]) = {}
            /\ (i = Len(history) /\ pc = "pos") =>
                    pos_frame.slots[SlotOf(i)] =
                        Some(DefaultOf(SectionKind(parse_text(NodeOf(i).name).v)))
            /\ i < Len(history) =>
                /\ SameBody(i, i + 1)
                /\ history[i + 1].at = history[i].at + 1
                /\ history[i + 1].rule = "other"
                /\ WarningsOf(i + 1) =
                        <<Warning(nodes[history[i].at + 2], history[i].language,
                                  "Unrecognized")>>
            /\ \A r \in Steps :
                (r > i /\ SameBody(i, r) /\ IsPosReturn(r)) =>
                    /\ FieldEmpty(EntryPushedAt(r), SlotOf(i))
                    /\ \A unknown \in EntryUnknowns(EntryPushedAt(r)) :
                            unknown.node \notin ListSpansOf(i)

\* A body has pushed its PosEntry after a marker with a parameter and a
\* repeated marker were each rejected with a list behind them.
ListsBehindRejectedMarkers ==
    \E r \in Steps : \E i, j \in 1..(r - 1) :
        /\ IsPosReturn(r)
        /\ SameBody(i, r) /\ SameBody(j, r)
        /\ IsRejectedBeforeList(i) /\ EarlierCalls(i) # {}
        /\ IsRejectedBeforeList(j) /\ EarlierCalls(j) = {}


----------------------------------------------------------------------------

\* Step `i` is an iteration of a body whose template reaches the `_` arm,
\* where parse_overview is called.
IsOverviewCall(i) ==
    /\ IsPosStep(i)
    /\ history[i].rule \in {"overview", "other"}
    /\ NodeOf(i).kind = "Template"
    /\ parse_text(NodeOf(i).name).some
    /\ parse_text(NodeOf(i).name).v
            \notin (SectionNames \union SupplementaryNames \union {"Referenzen"})

\* Step `e` is the return of a parse_language that builds a LanguageEntry.
IsEntryBuilt(e) ==
    /\ IsLanguageReturn(e)
    /\ LanguageEntriesBefore(e + 1) = history[e].language_entries + 1

\* The LanguageEntry built at step `e`.
EntryBuiltAt(e) == language_entries[history[e].language_entries + 1]

\* C30: wherever the active language is unwrapped it is defined: while
\* parse_language or a body runs, at every call of parse_overview and at every
\* return of parse_language that builds a LanguageEntry the active language is
\* the language the enclosing language heading names, the parse has aborted at
\* no unwrap (only, if at all, at the assertion of add_warning), and every
\* LanguageEntry of the output was built at such a return and carries the
\* language of its own heading.
LanguageDefinedWhenUnwrapped ==
    /\ context.panicked => AssertionFails(context)
    /\ pc \in {"language", "pos"} =>
        /\ context.language # NoLanguage
        /\ context.language = LanguageNamed(language_frame.heading_node)
    /\ \A i \in Steps :
        IsOverviewCall(i) =>
            /\ history[i].language # NoLanguage
            /\ history[i].language = SectionLanguageOf(i)
    /\ \A e \in Steps :
        IsEntryBuilt(e) =>
            /\ history[e].language # NoLanguage
            /\ history[e].language = LanguageNamed(LanguageHeadingOf(e))
            /\ EntryBuiltAt(e).language = LanguageNamed(LanguageHeadingOf(e))
    /\ \A k \in 1..Len(language_entries) :
        \E e \in Steps : IsEntryBuilt(e) /\ history[e].language_entries + 1 = k

\* A parse is over that built the entries of a German and of an English section,
\* each after a call of parse_overview in its body.
TwoLanguagesUnwrapped ==
    /\ pc = "done"
    /\ \E d, e \in Steps :
        /\ d < e
        /\ IsEntryBuilt(d) /\ EntryBuiltAt(d).language = "De"
        /\ IsEntryBuilt(e) /\ EntryBuiltAt(e).language = "En"
        /\ \E i, j \in Steps :
            /\ i < d /\ d < j /\ j < e
            /\ IsOverviewCall(i) /\ history[i].rule = "overview"
            /\ IsOverviewCall(j) /\ history[j].rule = "overview"
====
